---- MODULE Spec2Model ----
(***************************************************************************)
(* A model of the UltraStar TXT library (package ultrastar): the Reader    *)
(* (header loop, ReadNote, ReadSong), the Writer and the values they       *)
(* exchange.  Text is modelled as it is in the code: a line is a sequence  *)
(* of one-character strings, and numbers are parsed from and formatted to  *)
(* such sequences.  The input of a Reader is the sequence of lines that    *)
(* bufio.Scanner with scanLines delivers (a file whose lines all end in a  *)
(* line feed).  Every character of the model is ASCII.                     *)
(***************************************************************************)
EXTENDS Integers, Sequences, FiniteSets, TLC

VARIABLES
    pc,      \* position of the client program driving the library
    file,    \* the lines of the input the Reader is bound to
    r,       \* the Reader
    hist,    \* results of the ReadNote calls since the last Reset, in call order
    before,  \* what the Reader had done when Reset was last called
    resets,  \* number of Reset calls made by the client
    song,    \* the Song a client holds (read by ReadSong, or to be written)
    res,     \* the error returned by the last NewReader / Reset / ReadSong
    w,       \* the Writer
    out,     \* the lines written to the Writer's sink
    back,    \* the Song read back from the lines written
    header   \* the Header a client builds and queries

vars == <<pc, file, r, hist, before, resets, song, res, w, out, back, header>>

-----------------------------------------------------------------------------
(* Characters and strings *)

Digits == <<"0", "1", "2", "3", "4", "5", "6", "7", "8", "9">>

LowerChars == <<"a", "b", "c", "d", "e", "f", "g", "h", "i", "j", "k", "l", "m",
                "n", "o", "p", "q", "r", "s", "t", "u", "v", "w", "x", "y", "z">>

UpperChars == <<"A", "B", "C", "D", "E", "F", "G", "H", "I", "J", "K", "L", "M",
                "N", "O", "P", "Q", "R", "S", "T", "U", "V", "W", "X", "Y", "Z">>

IsDigit(c) == \E i \in 1..10 : Digits[i] = c

DigitVal(c) == (CHOOSE i \in 1..10 : Digits[i] = c) - 1

\* unicode.White_Space / unicode.IsSpace on the model's alphabet
IsSpace(c) == c \in {" ", "\t"}

ToUpperChar(c) ==
    IF \E i \in 1..26 : LowerChars[i] = c
    THEN UpperChars[CHOOSE i \in 1..26 : LowerChars[i] = c]
    ELSE c

ToLowerChar(c) ==
    IF \E i \in 1..26 : UpperChars[i] = c
    THEN LowerChars[CHOOSE i \in 1..26 : UpperChars[i] = c]
    ELSE c

ToUpper(s) == [i \in 1..Len(s) |-> ToUpperChar(s[i])]

ToLower(s) == [i \in 1..Len(s) |-> ToLowerChar(s[i])]

RECURSIVE TrimLeft(_)
TrimLeft(s) ==
    IF s = <<>> \/ ~IsSpace(Head(s)) THEN s ELSE TrimLeft(Tail(s))

RECURSIVE TrimRight(_)
TrimRight(s) ==
    IF s = <<>> \/ ~IsSpace(s[Len(s)]) THEN s ELSE TrimRight(SubSeq(s, 1, Len(s) - 1))

TrimSpace(s) == TrimRight(TrimLeft(s))

\* bytes.IndexByte / strings.Index for one character: the 1-based position of
\* the first c in s, 0 when there is none
IndexByte(s, c) ==
    IF \E i \in 1..Len(s) : s[i] = c
    THEN CHOOSE i \in 1..Len(s) : s[i] = c /\ \A j \in 1..(i - 1) : s[j] # c
    ELSE 0

\* the 1-based position of the first white space of s, Len(s) + 1 when none
IndexSpace(s) ==
    IF \E i \in 1..Len(s) : IsSpace(s[i])
    THEN CHOOSE i \in 1..Len(s) : IsSpace(s[i]) /\ \A j \in 1..(i - 1) : ~IsSpace(s[j])
    ELSE Len(s) + 1

RECURSIVE DigitsVal(_)
DigitsVal(s) ==
    IF s = <<>> THEN 0 ELSE DigitsVal(SubSeq(s, 1, Len(s) - 1)) * 10 + DigitVal(s[Len(s)])

AllDigits(s) == s # <<>> /\ \A i \in 1..Len(s) : IsDigit(s[i])

\* strconv.Atoi: an optional sign, then one or more decimal digits
Atoi(s) ==
    IF s # <<>> /\ Head(s) \in {"+", "-"}
    THEN IF AllDigits(Tail(s))
         THEN [ok |-> TRUE,
               val |-> IF Head(s) = "-" THEN 0 - DigitsVal(Tail(s)) ELSE DigitsVal(Tail(s))]
         ELSE [ok |-> FALSE, val |-> 0]
    ELSE IF AllDigits(s)
         THEN [ok |-> TRUE, val |-> DigitsVal(s)]
         ELSE [ok |-> FALSE, val |-> 0]

\* strconv.ParseUint(s, 10, 64): decimal digits only, no sign
ParseUint(s) ==
    IF AllDigits(s) THEN [ok |-> TRUE, val |-> DigitsVal(s)] ELSE [ok |-> FALSE, val |-> 0]

RECURSIVE FormatUint(_)
FormatUint(n) ==
    IF n < 10 THEN <<Digits[n + 1]>> ELSE FormatUint(n \div 10) \o <<Digits[(n % 10) + 1]>>

\* strconv.Itoa / strconv.FormatInt(n, 10)
Itoa(n) == IF n < 0 THEN <<"-">> \o FormatUint(0 - n) ELSE FormatUint(n)

\* strings.Split(s, sep) for a one-character separator
RECURSIVE Split(_, _)
Split(s, sep) ==
    LET i == IndexByte(s, sep)
    IN  IF i = 0 THEN <<s>>
        ELSE <<SubSeq(s, 1, i - 1)>> \o Split(SubSeq(s, i + 1, Len(s)), sep)

-----------------------------------------------------------------------------
(* Header: a map from keys to the values stored under them *)

\* Header values of a key that may be absent (a nil slice)
HValues(h, key) == IF key \in DOMAIN h THEN h[key] ELSE <<>>

\* h[key] = vs
HPut(h, key, vs) == [k \in (DOMAIN h) \cup {key} |-> IF k = key THEN vs ELSE h[k]]

\* delete(h, key)
HDel(h, key) == [k \in (DOMAIN h) \ {key} |-> h[k]]

EmptyHeader == [k \in {} |-> <<>>]

CanonicalHeaderKeyRaw(key) == key

CanonicalHeaderKey(key) ==
    IF IndexByte(key, ":") # 0 THEN <<>> ELSE ToUpper(TrimSpace(key))

Add(h, key, value) ==
    LET k == CanonicalHeaderKey(key) IN HPut(h, k, Append(HValues(h, k), value))

Set(h, key, value) ==
    IF value # <<>>
    THEN HPut(h, CanonicalHeaderKey(key), <<value>>)
    ELSE HDel(h, CanonicalHeaderKey(key))

Del(h, key) == HDel(h, CanonicalHeaderKey(key))

NonEmptyValue(v) == v # <<>>

SetValues(h, key, values) ==
    HPut(h, CanonicalHeaderKey(key), SelectSeq(values, NonEmptyValue))

SetInt64(h, key, value) == Set(h, key, Itoa(value))

SetInt(h, key, value) == SetInt64(h, key, value)

Values(h, key) == HValues(h, CanonicalHeaderKey(key))

\* the first non-empty value, "" when there is none
getHeader(values) ==
    IF \E i \in 1..Len(values) : values[i] # <<>>
    THEN values[CHOOSE i \in 1..Len(values) :
                    values[i] # <<>> /\ \A j \in 1..(i - 1) : values[j] = <<>>]
    ELSE <<>>

Get(h, key) == getHeader(HValues(h, CanonicalHeaderKey(key)))

Has(h, key) == \E i \in 1..Len(Values(h, key)) : Values(h, key)[i] # <<>>

\* strings.ReplaceAll(s, ",", ",,")
RECURSIVE DoubleCommas(_)
DoubleCommas(s) ==
    IF s = <<>> THEN <<>>
    ELSE IF Head(s) = "," THEN <<",", ",">> \o DoubleCommas(Tail(s))
    ELSE <<Head(s)>> \o DoubleCommas(Tail(s))

\* strings.ReplaceAll(s, ",,", ","): the pairs are replaced from the left
RECURSIVE SingleCommas(_)
SingleCommas(s) ==
    IF s = <<>> THEN <<>>
    ELSE IF Len(s) >= 2 /\ s[1] = "," /\ s[2] = ","
    THEN <<",">> \o SingleCommas(SubSeq(s, 3, Len(s)))
    ELSE <<Head(s)>> \o SingleCommas(Tail(s))

\* strings.Join(elems, ",")
RECURSIVE Join(_)
Join(elems) ==
    IF elems = <<>> THEN <<>>
    ELSE IF Len(elems) = 1 THEN elems[1]
    ELSE elems[1] \o <<",">> \o Join(Tail(elems))

\* the values encodeMultiValue keeps: trimmed, not empty, commas doubled
RECURSIVE encodedValues(_)
encodedValues(values) ==
    IF values = <<>> THEN <<>>
    ELSE IF TrimSpace(Head(values)) = <<>> THEN encodedValues(Tail(values))
    ELSE <<DoubleCommas(TrimSpace(Head(values)))>> \o encodedValues(Tail(values))

encodeMultiValue(values) == Join(encodedValues(values))

SetMultiValued(h, key, values) == Set(h, key, encodeMultiValue(values))

\* the last fragment of a raw value, yielded when it is not empty
lastFragment(rawValue) ==
    IF SingleCommas(TrimSpace(rawValue)) # <<>>
    THEN <<SingleCommas(TrimSpace(rawValue))>>
    ELSE <<>>

\* the comma found at index j (0-based) of rawValue[from:] counts as the first
\* of a doubled comma: len(rawValue) > j+1 && rawValue[j+1] == ','  
escapedAt(rawValue, j) == Len(rawValue) > j + 1 /\ rawValue[j + 2] = ","

\* The inner loop of parseMultiValuedHeader for one raw value: the fragments
\* yielded, and whether rawValue[from:] was out of range.
RECURSIVE parseRawValue(_, _)
parseRawValue(rawValue, from) ==
    IF rawValue = <<>> THEN [items |-> <<>>, panic |-> FALSE]
    ELSE IF from > Len(rawValue) THEN [items |-> <<>>, panic |-> TRUE]
    ELSE IF IndexByte(SubSeq(rawValue, from + 1, Len(rawValue)), ",") = 0
    THEN [items |-> lastFragment(rawValue), panic |-> FALSE]
    ELSE IF escapedAt(rawValue,
                      IndexByte(SubSeq(rawValue, from + 1, Len(rawValue)), ",") - 1)
    THEN parseRawValue(rawValue,
                       from + IndexByte(SubSeq(rawValue, from + 1, Len(rawValue)), ",") + 1)
    ELSE [items |->
            lastFragment(SubSeq(rawValue, 1,
                from + IndexByte(SubSeq(rawValue, from + 1, Len(rawValue)), ",") - 1))
            \o parseRawValue(SubSeq(rawValue,
                    from + IndexByte(SubSeq(rawValue, from + 1, Len(rawValue)), ",") + 1,
                    Len(rawValue)), 0).items,
          panic |->
            parseRawValue(SubSeq(rawValue,
                    from + IndexByte(SubSeq(rawValue, from + 1, Len(rawValue)), ",") + 1,
                    Len(rawValue)), 0).panic]

\* parseMultiValuedHeader(vs): the values yielded, up to a panic
RECURSIVE parseMultiValuedHeader(_)
parseMultiValuedHeader(vs) ==
    IF vs = <<>> THEN [items |-> <<>>, panic |-> FALSE]
    ELSE IF parseRawValue(Head(vs), 0).panic
    THEN [items |-> parseRawValue(Head(vs), 0).items, panic |-> TRUE]
    ELSE [items |-> parseRawValue(Head(vs), 0).items \o parseMultiValuedHeader(Tail(vs)).items,
          panic |-> parseMultiValuedHeader(Tail(vs)).panic]

GetMultiValued(h, key) == parseMultiValuedHeader(Values(h, key))

\* The loop of uniqueHeaderAs from value i on; convd[i] is conv(values[i]), a
\* record [val, err] with err = "nil" on success.
RECURSIVE uniqueLoop(_, _, _, _, _, _)
uniqueLoop(values, convd, i, t, found, required) ==
    IF i > Len(values)
    THEN IF required /\ ~found
         THEN [val |-> t, err |-> "ErrNoValue"]
         ELSE [val |-> t, err |-> "nil"]
    ELSE IF values[i] = <<>>
    THEN uniqueLoop(values, convd, i + 1, t, found, required)
    ELSE IF convd[i].err # "nil"
    THEN [val |-> t, err |-> convd[i].err]
    ELSE IF found /\ t # convd[i].val
    THEN [val |-> t, err |-> "ErrMultipleValues"]
    ELSE uniqueLoop(values, convd, i + 1, convd[i].val, TRUE, required)

uniqueHeaderAsLenient(values, required, convd, zero) ==
    uniqueLoop(values, convd, 1, zero, FALSE, FALSE)

\* uniqueHeaderAs(values, required, conv) with convd[i] = conv(values[i]) and
\* zero the zero value of the result type
uniqueHeaderAs(values, required, convd, zero) ==
    uniqueLoop(values, convd, 1, zero, FALSE, required)

-----------------------------------------------------------------------------
(* Version *)

ZeroVersion == [Major |-> 0, Minor |-> 0, Patch |-> 0]

Version030 == [Major |-> 0, Minor |-> 3, Patch |-> 0]

Version100 == [Major |-> 1, Minor |-> 0, Patch |-> 0]

ParseVersion(s) ==
    LET comps == Split(s, ".")
    IN  IF Len(comps) # 3
        THEN [val |-> ZeroVersion, err |-> "version components"]
        ELSE IF ~ParseUint(comps[1]).ok
        THEN [val |-> ZeroVersion, err |-> "invalid syntax"]
        ELSE IF ~ParseUint(comps[2]).ok
        THEN [val |-> [ZeroVersion EXCEPT !.Major = ParseUint(comps[1]).val],
              err |-> "invalid syntax"]
        ELSE IF ~ParseUint(comps[3]).ok
        THEN [val |-> [Major |-> ParseUint(comps[1]).val,
                       Minor |-> ParseUint(comps[2]).val, Patch |-> 0],
              err |-> "invalid syntax"]
        ELSE [val |-> [Major |-> ParseUint(comps[1]).val,
                       Minor |-> ParseUint(comps[2]).val,
                       Patch |-> ParseUint(comps[3]).val],
              err |-> "nil"]

VersionString(v) ==
    FormatUint(v.Major) \o <<".">> \o FormatUint(v.Minor) \o <<".">> \o FormatUint(v.Patch)

\* Version.Compare: -1, 0 or 1
VersionCompare(v, v2) ==
    IF v.Major # v2.Major THEN (IF v.Major < v2.Major THEN 0 - 1 ELSE 1)
    ELSE IF v.Minor # v2.Minor THEN (IF v.Minor < v2.Minor THEN 0 - 1 ELSE 1)
    ELSE IF v.Patch # v2.Patch THEN (IF v.Patch < v2.Patch THEN 0 - 1 ELSE 1)
    ELSE 0

VersionIsZero(v) == v.Major = 0 /\ v.Minor = 0 /\ v.Patch = 0

-----------------------------------------------------------------------------
(* Notes.  A NoteType is the byte of the note line; the zero byte is "". *)

NoteTypeEndOfPhrase == "-"

ZeroNote == [Type |-> "", Start |-> 0, Duration |-> 0, Pitch |-> 0, Text |-> <<>>]

IsEndOfPhrase(t) == t = NoteTypeEndOfPhrase

-----------------------------------------------------------------------------
(* Errors: nil, io.EOF, a *SyntaxError{Line, Err}, or a run-time panic *)

NilErr == [kind |-> "nil", line |-> 0, msg |-> ""]

EOF == [kind |-> "EOF", line |-> 0, msg |-> ""]

SyntaxError(line, msg) == [kind |-> "syntax", line |-> line, msg |-> msg]

Panic(msg) == [kind |-> "panic", line |-> 0, msg |-> msg]

-----------------------------------------------------------------------------
(* Reader *)

\* The known encodings: the keys of the Encodings map and the charmap each
\* names.  "nil" is the nil encoding.Encoding (UTF-8).
Encodings ==
    [k \in {<<"c", "p", "1", "2", "5", "0">>,
            <<"c", "p", "-", "1", "2", "5", "0">>,
            <<"w", "i", "n", "d", "o", "w", "s", "1", "2", "5", "0">>,
            <<"w", "i", "n", "d", "o", "w", "s", "-", "1", "2", "5", "0">>,
            <<"c", "p", "1", "2", "5", "2">>,
            <<"c", "p", "-", "1", "2", "5", "2">>,
            <<"w", "i", "n", "d", "o", "w", "s", "1", "2", "5", "2">>,
            <<"w", "i", "n", "d", "o", "w", "s", "-", "1", "2", "5", "2">>}
        |-> IF k[Len(k)] = "0" THEN "Windows1250" ELSE "Windows1252"]

HeaderVersion == <<"V", "E", "R", "S", "I", "O", "N">>

HeaderEncoding == <<"E", "N", "C", "O", "D", "I", "N", "G">>

HeaderRelative == <<"R", "E", "L", "A", "T", "I", "V", "E">>

HeaderBPM == <<"B", "P", "M">>

HeaderGap == <<"G", "A", "P">>

HeaderTitle == <<"T", "I", "T", "L", "E">>

HeaderYear == <<"Y", "E", "A", "R">>

HeaderDuetSingerP1 == <<"D", "U", "E", "T", "S", "I", "N", "G", "E", "R", "P", "1">>

HeaderDuetSingerP2 == <<"D", "U", "E", "T", "S", "I", "N", "G", "E", "R", "P", "2">>

\* the relative offsets of a Reader or Writer: one Beat per voice P1..P9
ZeroRel == [i \in 1..9 |-> 0]

\* &Reader{}: the zero value
ZeroReader ==
    [Header |-> EmptyHeader, Version |-> ZeroVersion, Relative |-> FALSE,
     Encoding |-> "nil", src |-> <<>>, pos |-> 0, tok |-> <<>>,
     done |-> FALSE, rescan |-> FALSE, line |-> 0, voice |-> 0, rel |-> ZeroRel]

\* The loop of scan over r.s.Scan(): src are the lines of the underlying
\* reader, pos the number of them the bufio.Scanner has delivered and tok its
\* current token (r.s.Bytes()).
RECURSIVE scanLoop(_)
scanLoop(rd) ==
    IF rd.pos >= Len(rd.src)
    THEN [ok |-> FALSE, r |-> [rd EXCEPT !.tok = <<>>]]
    ELSE LET n == [rd EXCEPT !.pos = rd.pos + 1,
                             !.tok = rd.src[rd.pos + 1],
                             !.line = rd.line + 1]
         IN  IF Len(n.tok) > 0 THEN [ok |-> TRUE, r |-> n] ELSE scanLoop(n)

scanNoRescan(rd) == scanLoop([rd EXCEPT !.rescan = FALSE])

scan(rd) ==
    IF rd.rescan
    THEN [ok |-> TRUE, r |-> [rd EXCEPT !.line = rd.line + 1, !.rescan = FALSE]]
    ELSE scanLoop(rd)

unscanKeepLine(rd) == [rd EXCEPT !.rescan = TRUE]

\* unscan is only called right after a successful scan, where neither of its
\* panics (line = 0, rescan set) can fire.
unscan(rd) == [rd EXCEPT !.line = rd.line - 1, !.rescan = TRUE]

\* A charmap decoder applied to text of the model: every character of the
\* model is ASCII, which Windows-1250 and Windows-1252 map to itself.
Decode(e, s) == s

UseEncoding(rd, e) ==
    IF e = rd.Encoding THEN rd
    ELSE [rd EXCEPT
            !.Header = [k \in {Decode(e, key) : key \in DOMAIN rd.Header} |->
                          LET key == CHOOSE kk \in DOMAIN rd.Header : Decode(e, kk) = k
                          IN  [i \in 1..Len(rd.Header[key]) |-> Decode(e, rd.Header[key][i])]],
            !.Encoding = e]

readHeaderLine(rd) ==
    LET s == scan(rd)
        line == TrimSpace(s.r.tok)
        index == IndexByte(line, ":")
    IN  IF ~s.ok THEN [ok |-> FALSE, r |-> s.r]
        ELSE IF Len(line) = 0 THEN [ok |-> TRUE, r |-> s.r]
        ELSE IF line[1] # "#" THEN [ok |-> FALSE, r |-> unscan(s.r)]
        ELSE IF Len(line) = 1 THEN [ok |-> TRUE, r |-> s.r]
        ELSE IF index = 0
        THEN LET key == CanonicalHeaderKey(line)
             IN  [ok |-> TRUE,
                  r |-> IF ~Has(s.r.Header, key)
                        THEN [s.r EXCEPT !.Header = HPut(@, key, <<>>)]
                        ELSE s.r]
        ELSE [ok |-> TRUE,
              r |-> [s.r EXCEPT !.Header =
                        Add(@, TrimSpace(SubSeq(line, 2, index - 1)),
                               TrimSpace(SubSeq(line, index + 1, Len(line))))]]

\* the for loop of readHeader
RECURSIVE readHeaderLines(_)
readHeaderLines(rd) ==
    LET h == readHeaderLine(rd) IN IF h.ok THEN readHeaderLines(h.r) ELSE h.r

\* conv of the #RELATIVE header: strings.EqualFold(v, "yes")
convRelative(v) == [val |-> ToLower(v) = <<"y", "e", "s">>, err |-> "nil"]

\* conv of the #ENCODING header: the lookup in Encodings
convEncoding(v) ==
    IF ToLower(v) \in DOMAIN Encodings
    THEN [val |-> Encodings[ToLower(v)], err |-> "nil"]
    ELSE [val |-> "nil", err |-> "unknown encoding"]

\* A *headerError{Key, Err}
HeaderError(key, err) == [Key |-> key, Err |-> err]

headerErrorIsAny(err, hErr) == TRUE

\* (*headerError).Is(target) for a target *HeaderError hErr; both ends of the
\* comparison of the underlying errors return true
headerErrorIs(err, hErr) ==
    IF hErr.Key # <<>> /\ hErr.Key # err.Key THEN FALSE
    ELSE IF err.Err # "nil" /\ hErr.Err = err.Err THEN TRUE
    ELSE TRUE

\* errors.Is(err, target) for a *headerError err: err is not the pointer
\* target, so err.Is(target) decides; the error err unwraps to is no
\* *HeaderError and has no Is method
errorsIs(err, hErr) == headerErrorIs(err, hErr)

\* (*headerError).As(target) for a target **HeaderError; hErrPtr is <<>> for a
\* nil *HeaderError and <<hErr>> otherwise.  The result and *target after it.
headerErrorAs(err, hErrPtr) ==
    IF hErrPtr # <<>> /\ hErrPtr[1].Key # <<>> /\ hErrPtr[1].Key # err.Key
    THEN [ok |-> FALSE, target |-> hErrPtr]
    ELSE [ok |-> TRUE, target |-> <<HeaderError(err.Key, err.Err)>>]

\* errors.As(err, target) for a *headerError err: *headerError is not
\* assignable to *HeaderError, so err.As(target) decides; the error err
\* unwraps to is not assignable either and has no As method
errorsAs(err, hErrPtr) == headerErrorAs(err, hErrPtr)

\* uniqueHeaderAs(r.Header[HeaderVersion], true, ParseVersion)
versionHeader(vs) ==
    uniqueHeaderAs(vs, TRUE, [i \in 1..Len(vs) |-> ParseVersion(vs[i])], ZeroVersion)

\* uniqueHeaderAs(r.Header[HeaderRelative], false, ...)
relativeHeader(vs) ==
    uniqueHeaderAs(vs, FALSE, [i \in 1..Len(vs) |-> convRelative(vs[i])], FALSE)

\* uniqueHeaderAs(r.Header[HeaderEncoding], false, ...)
encodingHeader(vs) ==
    uniqueHeaderAs(vs, FALSE, [i \in 1..Len(vs) |-> convEncoding(vs[i])], "nil")

\* if relErr == nil { r.Relative = rel }
setRelative(rd, rel) == IF rel.err = "nil" THEN [rd EXCEPT !.Relative = rel.val] ELSE rd

\* if encErr == nil { r.UseEncoding(enc) }
setEncoding(rd, enc) == IF enc.err = "nil" THEN UseEncoding(rd, enc.val) ELSE rd

\* errors.Join(encErr, relErr) as the set of the HeaderErrors joined
joinHeaderErrors(enc, rel) ==
    (IF enc.err = "nil" THEN {} ELSE {HeaderError(HeaderEncoding, enc.err)})
        \cup (IF rel.err = "nil" THEN {} ELSE {HeaderError(HeaderRelative, rel.err)})

\* the block of readHeader for r.Version.Major == 0
readHeaderCompat(rd) ==
    [r |-> setEncoding(setRelative(rd, relativeHeader(HValues(rd.Header, HeaderRelative))),
                       encodingHeader(HValues(rd.Header, HeaderEncoding))),
     err |-> joinHeaderErrors(encodingHeader(HValues(rd.Header, HeaderEncoding)),
                              relativeHeader(HValues(rd.Header, HeaderRelative)))]

\* readHeader after its loop, v being the result of reading #VERSION
readHeaderVersion(rd, v) ==
    IF v.err = "ErrNoValue" THEN readHeaderCompat([rd EXCEPT !.Version = Version030])
    ELSE IF v.err # "nil" THEN [r |-> rd, err |-> {HeaderError(HeaderVersion, v.err)}]
    ELSE IF v.val.Major = 0 THEN readHeaderCompat([rd EXCEPT !.Version = v.val])
    ELSE [r |-> [rd EXCEPT !.Version = v.val], err |-> {}]

\* readHeader after its loop
readHeaderValues(rd) == readHeaderVersion(rd, versionHeader(HValues(rd.Header, HeaderVersion)))

\* readHeader: the Reader after it, and the returned error as the set of the
\* HeaderErrors joined in it (empty: nil)
readHeader(rd0) == readHeaderValues(readHeaderLines(rd0))

ResetKeepOffsets(reader, rd) ==
    readHeader([reader EXCEPT
                  !.src = rd, !.pos = 0, !.tok = <<>>,
                  !.done = FALSE, !.rescan = FALSE, !.line = 0, !.voice = 0,
                  !.Header = EmptyHeader,
                  !.Relative = FALSE, !.Version = Version030, !.Encoding = "nil"])

\* Reader.Reset(rd): the Reader bound to the lines rd, and the returned error
Reset(reader, rd) ==
    readHeader([reader EXCEPT
                  !.src = rd, !.pos = 0, !.tok = <<>>,
                  !.done = FALSE, !.rescan = FALSE, !.line = 0, !.voice = 0,
                  !.rel = ZeroRel,
                  !.Header = EmptyHeader,
                  !.Relative = FALSE, !.Version = Version030, !.Encoding = "nil"])

\* NewReader(rd) for a non-nil rd
NewReader(rd) ==
    Reset([ZeroReader EXCEPT !.Header = EmptyHeader, !.Version = Version030], rd)

\* nextField: the first run of non-space characters of bs after its leading
\* white space, and the remainder
nextField(bs) ==
    LET t == TrimLeft(bs)
        i == IndexSpace(t)
    IN  [field |-> SubSeq(t, 1, i - 1), rem |-> SubSeq(t, i, Len(t))]

noteTypeRegular(line) == ":"

\* note.Type = NoteType(line[0])
noteType(line) == line[1]

\* r.rel[r.voice] += offset
addRelAllVoices(rd, offset) == [rd EXCEPT !.rel = [i \in 1..9 |-> rd.rel[i] + offset]]

addRel(rd, offset) == [rd EXCEPT !.rel[rd.voice + 1] = @ + offset]

\* voice--; r.voice = voice
setVoiceKeep(rd, voice) == rd

setVoice(rd, voice) == [rd EXCEPT !.voice = voice - 1]

\* parseNote(line): the Reader after it (its relative offsets may change), the
\* note, and the error as a message ("" for nil, "panic" for the run-time
\* panic of indexing r.rel outside 0..8)
parseNote(rd, line) ==
    LET type == noteType(line)
        n0 == [ZeroNote EXCEPT !.Type = type,
                               !.Text = IF type = NoteTypeEndOfPhrase THEN <<"\n">> ELSE <<>>]
        f1 == nextField(Tail(line))
        a1 == Atoi(f1.field)
        n1 == [n0 EXCEPT !.Start = a1.val + rd.rel[rd.voice + 1]]
        f2 == nextField(f1.rem)
        a2 == Atoi(f2.field)
        n2 == [n1 EXCEPT !.Duration = a2.val]
        f3 == nextField(f2.rem)
        a3 == Atoi(f3.field)
        n3 == [n2 EXCEPT !.Pitch = a3.val]
        text == Tail(f3.rem)
    IN  IF Len(line) = 0
        THEN [r |-> rd, note |-> ZeroNote, err |-> "invalid note type"]
        ELSE IF ~a1.ok
        THEN [r |-> rd, note |-> n0, err |-> "invalid note start"]
        ELSE IF rd.voice \notin 0..8
        THEN [r |-> rd, note |-> n0, err |-> "panic"]
        ELSE IF type = NoteTypeEndOfPhrase /\ ~rd.Relative
        THEN IF Len(TrimSpace(f1.rem)) > 0
             THEN [r |-> rd, note |-> n1, err |-> "invalid line break: extra text"]
             ELSE [r |-> rd, note |-> n1, err |-> ""]
        ELSE IF type = NoteTypeEndOfPhrase
        THEN IF ~a2.ok
             THEN [r |-> rd, note |-> n1,
                   err |-> "invalid line break: invalid relative offset"]
             ELSE IF Len(TrimSpace(f2.rem)) > 0
             THEN [r |-> rd, note |-> n1, err |-> "invalid line break: extra text"]
             ELSE [r |-> addRel(rd, a2.val), note |-> n1, err |-> ""]
        ELSE IF ~a2.ok
        THEN [r |-> rd, note |-> n1, err |-> "invalid note duration"]
        ELSE IF ~a3.ok
        THEN [r |-> rd, note |-> n2, err |-> "invalid note pitch"]
        ELSE IF f3.rem = <<>> \/ ~IsSpace(Head(f3.rem))
        THEN [r |-> rd, note |-> n3, err |-> "missing whitespace after note pitch"]
        ELSE IF Len(text) = 0
        THEN [r |-> rd, note |-> n3, err |-> "empty note text"]
        ELSE [r |-> rd,
              note |-> [n3 EXCEPT !.Text = IF rd.Encoding # "nil"
                                           THEN Decode(rd.Encoding, text) ELSE text],
              err |-> ""]

\* The for loop of ReadNote
RECURSIVE readNoteLoop(_)
readNoteLoop(rd) ==
    LET s == scan(rd)
        line == s.r.tok
        trimmed == TrimSpace(line)
        v == Atoi(TrimSpace(Tail(trimmed)))
        p == parseNote(s.r, line)
    IN  IF ~s.ok
        THEN [r |-> s.r, note |-> ZeroNote, voice |-> 0 - 1, err |-> EOF]
        ELSE IF Len(trimmed) = 0
        THEN readNoteLoop(s.r)
        ELSE IF line[1] = "E"
        THEN IF Len(trimmed) > 1
             THEN [r |-> s.r, note |-> ZeroNote, voice |-> 0 - 1,
                   err |-> SyntaxError(s.r.line, "invalid end tag")]
             ELSE [r |-> [s.r EXCEPT !.done = TRUE], note |-> ZeroNote,
                   voice |-> 0 - 1, err |-> EOF]
        ELSE IF line[1] = "P"
        THEN IF ~v.ok \/ v.val <= 0
             THEN [r |-> s.r, note |-> ZeroNote, voice |-> 0 - 1,
                   err |-> SyntaxError(s.r.line, "invalid voice change")]
             ELSE readNoteLoop(setVoice(s.r, v.val))
        ELSE IF p.err = "panic"
        THEN [r |-> p.r, note |-> p.note, voice |-> p.r.voice,
              err |-> Panic("index out of range")]
        ELSE IF p.err # ""
        THEN [r |-> p.r, note |-> p.note, voice |-> p.r.voice,
              err |-> SyntaxError(p.r.line, p.err)]
        ELSE [r |-> p.r, note |-> p.note, voice |-> p.r.voice, err |-> NilErr]

ReadNoteNoDone(rd) == readNoteLoop(rd)

\* Reader.ReadNote: the Reader after the call and the returned (note, voice, err)
ReadNote(rd) ==
    IF rd.done
    THEN [r |-> rd, note |-> ZeroNote, voice |-> 0, err |-> EOF]
    ELSE readNoteLoop(rd)

-----------------------------------------------------------------------------
(* Voice and Song.  Of the fields of a Song the model keeps BPM, Gap (in    *)
(* milliseconds), Title, Year, Header and Voices; the headers that set the  *)
(* other fields do not occur in the inputs of the model.  Numbers in header *)
(* values are whole numbers.                                                *)

HeaderVoice(i) == <<"P">> \o Itoa(i)

HeaderDuetSinger(i) == <<"D", "U", "E", "T", "S", "I", "N", "G", "E", "R", "P">> \o Itoa(i)

\* &Voice{Name: name}
NewVoice(name) == [Name |-> name, Notes |-> <<>>]

AppendNotes(v, n) == [v EXCEPT !.Notes = Append(@, n)]

\* Note.CompareStart
CompareStart(n, n2) ==
    IF n.Start < n2.Start THEN 0 - 1 ELSE IF n.Start > n2.Start THEN 1 ELSE 0

\* a sort that puts a note before the notes of the same Start already placed
RECURSIVE insertBefore(_, _)
insertBefore(sorted, n) ==
    IF sorted = <<>> THEN <<n>>
    ELSE IF CompareStart(n, sorted[Len(sorted)]) <= 0
    THEN Append(insertBefore(SubSeq(sorted, 1, Len(sorted) - 1), n), sorted[Len(sorted)])
    ELSE Append(sorted, n)

RECURSIVE sortUnstable(_)
sortUnstable(ns) ==
    IF ns = <<>> THEN <<>>
    ELSE insertBefore(sortUnstable(SubSeq(ns, 1, Len(ns) - 1)), ns[Len(ns)])

\* slices.SortStableFunc(ns, Note.CompareStart) as an insertion sort: a note
\* goes after every note placed before it that does not compare greater
RECURSIVE insertStable(_, _)
insertStable(sorted, n) ==
    IF sorted = <<>> THEN <<n>>
    ELSE IF CompareStart(n, sorted[Len(sorted)]) < 0
    THEN Append(insertStable(SubSeq(sorted, 1, Len(sorted) - 1), n), sorted[Len(sorted)])
    ELSE Append(sorted, n)

RECURSIVE SortStableFunc(_)
SortStableFunc(ns) ==
    IF ns = <<>> THEN <<>>
    ELSE insertStable(SortStableFunc(SubSeq(ns, 1, Len(ns) - 1)), ns[Len(ns)])

\* slices.BinarySearchFunc(x, target, Note.CompareStart): the loop from the
\* bounds i, j (0-based) on, h being the middle
RECURSIVE binarySearchLoop(_, _, _, _)
binarySearchLoop(x, target, i, j) ==
    IF i >= j THEN i
    ELSE IF CompareStart(x[((i + j) \div 2) + 1], target) < 0
    THEN binarySearchLoop(x, target, ((i + j) \div 2) + 1, j)
    ELSE binarySearchLoop(x, target, i, (i + j) \div 2)

BinarySearchFunc(x, target) == binarySearchLoop(x, target, 0, Len(x))

AddNoteAtEnd(v, n) == [v EXCEPT !.Notes = Append(@, n)]

\* Voice.AddNote: n goes to the index the binary search returns
AddNote(v, n) ==
    [v EXCEPT !.Notes = SubSeq(@, 1, BinarySearchFunc(@, n)) \o <<n>>
                          \o SubSeq(@, BinarySearchFunc(@, n) + 1, Len(@))]

SortNotesUnstable(v) == [v EXCEPT !.Notes = sortUnstable(@)]

SortNotes(v) == [v EXCEPT !.Notes = SortStableFunc(@)]

IsEmpty(v) == \A i \in 1..Len(v.Notes) : v.Notes[i].Type = NoteTypeEndOfPhrase

\* strings.HasSuffix(s, " ") and strings.HasPrefix(s, " ")
HasSuffixSpace(s) == s # <<>> /\ s[Len(s)] = " "

HasPrefixSpace(s) == s # <<>> /\ s[1] = " "

\* the body of the inner loop of ConvertToLeadingSpaces for the note at the
\* 1-based index i, n being the copy of it the range clause made
leadingBody(notes, i, n) ==
    IF n.Type # NoteTypeEndOfPhrase
    THEN [notes EXCEPT ![i].Text = SubSeq(n.Text, 1, Len(n.Text) - 1),
                       ![i + 1].Text = <<" ">> \o n.Text]
    ELSE [notes EXCEPT ![i].Text = SubSeq(n.Text, 1, Len(n.Text) - 1)]

\* the range loop of ConvertToLeadingSpaces from index i on. The condition of
\* the inner loop reads the copy n, which the body never changes: once it is
\* true the loop repeats its body for ever, writing the same texts.
RECURSIVE leadingFrom(_, _)
leadingFrom(notes, i) ==
    IF i > Len(notes) - 1 THEN [notes |-> notes, outcome |-> "done"]
    ELSE IF HasSuffixSpace(notes[i].Text)
    THEN [notes |-> leadingBody(notes, i, notes[i]), outcome |-> "loop"]
    ELSE leadingFrom(notes, i + 1)

\* Voice.ConvertToLeadingSpaces: the notes and how the call ends; the slice
\* expression v.Notes[0 : len(v.Notes)-1] panics when there is no note
ConvertToLeadingSpaces(v) ==
    IF Len(v.Notes) = 0 THEN [notes |-> v.Notes, outcome |-> "panic"]
    ELSE leadingFrom(v.Notes, 1)

\* the range loop of ConvertToTrailingSpaces from the 1-based index j on; n is
\* notes[j + 1], the body writes notes[j] and then notes[j - 1], which is out
\* of range for j = 1. When it does not panic the inner loop repeats for
\* ever, and the notes are those after its first pass.
RECURSIVE trailingFrom(_, _)
trailingFrom(notes, j) ==
    IF j > Len(notes) - 1 THEN [notes |-> notes, outcome |-> "done"]
    ELSE IF HasPrefixSpace(notes[j + 1].Text)
    THEN IF notes[j + 1].Type # NoteTypeEndOfPhrase
         THEN IF j = 1
              THEN [notes |-> [notes EXCEPT ![j].Text = Tail(notes[j + 1].Text)],
                    outcome |-> "panic"]
              ELSE [notes |-> [notes EXCEPT ![j].Text = Tail(notes[j + 1].Text),
                                            ![j - 1].Text = @ \o <<" ">>],
                    outcome |-> "loop"]
         ELSE [notes |-> [notes EXCEPT ![j].Text = Tail(notes[j + 1].Text)],
               outcome |-> "loop"]
    ELSE trailingFrom(notes, j + 1)

\* Voice.ConvertToTrailingSpaces; v.Notes[1:] panics when there is no note
ConvertToTrailingSpaces(v) ==
    IF Len(v.Notes) = 0 THEN [notes |-> v.Notes, outcome |-> "panic"]
    ELSE trailingFrom(v.Notes, 1)

\* &Song{Header: make(Header)}
NewSong ==
    [BPM |-> 0, Gap |-> 0, Title |-> <<>>, Year |-> 0, Header |-> EmptyHeader,
     Voices |-> <<>>, MedleyStart |-> 0, MedleyEnd |-> 0]

HeaderMedleyStartBeat ==
    <<"M", "E", "D", "L", "E", "Y", "S", "T", "A", "R", "T", "B", "E", "A", "T">>

HeaderMedleyEndBeat == <<"M", "E", "D", "L", "E", "Y", "E", "N", "D", "B", "E", "A", "T">>

\* BPM.Duration(bs) in milliseconds, for b > 0 and a duration that is a whole
\* number of milliseconds
Duration(b, bs) == (bs * 60000) \div b

\* BPM.IsValid, for a finite whole number
IsValid(b) == b > 0

\* parseFloat(v, allowComma) for the text of a whole number
parseFloat(v) ==
    IF Atoi(v).ok THEN [val |-> Atoi(v).val, err |-> "nil"]
    ELSE [val |-> 0, err |-> "invalid syntax"]

\* strconv.Atoi as the conv of uniqueHeaderAs
convAtoi(v) ==
    IF Atoi(v).ok THEN [val |-> Atoi(v).val, err |-> "nil"]
    ELSE [val |-> 0, err |-> "invalid syntax"]

\* the conv of the #BPM header
convBPM(v) ==
    IF ~IsValid(parseFloat(v).val * 4)
    THEN [val |-> parseFloat(v).val * 4, err |-> "invalid BPM value"]
    ELSE [val |-> parseFloat(v).val * 4, err |-> parseFloat(v).err]

\* the result field of one setSongHeader call: s with field f set to u.val,
\* and u.err
setField(s, f, u) == [s |-> [s EXCEPT ![f] = u.val], err |-> u.err]

\* the MEDLEYSTARTBEAT and MEDLEYENDBEAT cases of setSongHeader: f is the
\* field, u the result of uniqueHeaderAs(values, true, strconv.Atoi)
setMedleyBeat(rd, s, f, key, values, u) ==
    IF rd.Version.Major < 2
    THEN IF u.err # "nil" /\ u.err # "ErrNoValue" THEN [s |-> s, err |-> u.err]
         ELSE IF u.err = "nil"
         THEN [s |-> [s EXCEPT ![f] = Duration(s.BPM, u.val) + s.Gap], err |-> "nil"]
         ELSE [s |-> s, err |-> "nil"]
    ELSE [s |-> [s EXCEPT !.Header = SetValues(@, key, values)], err |-> "nil"]

\* setSongHeader for the keys of the model
setSongHeader(rd, s, key, values) ==
    IF key = HeaderVersion \/ key \in {HeaderVoice(i) : i \in 1..9}
    THEN [s |-> s, err |-> "nil"]
    ELSE IF key \in {HeaderEncoding, HeaderRelative, HeaderDuetSingerP1, HeaderDuetSingerP2}
    THEN IF VersionCompare(rd.Version, Version100) >= 0
         THEN [s |-> [s EXCEPT !.Header = SetValues(@, key, values)], err |-> "nil"]
         ELSE [s |-> s, err |-> "nil"]
    ELSE IF key = HeaderTitle
    THEN [s |-> [s EXCEPT !.Title = getHeader(values)], err |-> "nil"]
    ELSE IF key = HeaderYear
    THEN setField(s, "Year",
                  uniqueHeaderAs(values, FALSE,
                                 [i \in 1..Len(values) |-> convAtoi(values[i])], 0))
    ELSE IF key = HeaderBPM
    THEN setField(s, "BPM",
                  uniqueHeaderAs(values, TRUE,
                                 [i \in 1..Len(values) |-> convBPM(values[i])], 0))
    ELSE IF key = HeaderGap
    THEN setField(s, "Gap",
                  uniqueHeaderAs(values, FALSE,
                                 [i \in 1..Len(values) |-> parseFloat(values[i])], 0))
    ELSE IF key = HeaderMedleyStartBeat
    THEN setMedleyBeat(rd, s, "MedleyStart", key, values,
                       uniqueHeaderAs(values, TRUE,
                                      [i \in 1..Len(values) |-> convAtoi(values[i])], 0))
    ELSE IF key = HeaderMedleyEndBeat
    THEN setMedleyBeat(rd, s, "MedleyEnd", key, values,
                       uniqueHeaderAs(values, TRUE,
                                      [i \in 1..Len(values) |-> convAtoi(values[i])], 0))
    ELSE [s |-> [s EXCEPT !.Header = SetValues(@, key, values)], err |-> "nil"]

\* one step of Song: setSongHeader for key, its error n.err joined to acc's
songHeaderStep(acc, key, n) ==
    [s |-> n.s,
     err |-> acc.err \cup (IF n.err = "nil" THEN {} ELSE {HeaderError(key, n.err)})]

\* if err := r.setSongHeader(song, key, r.Header[key]); err != nil { ... }
applyHeader(rd, acc, key) ==
    songHeaderStep(acc, key, setSongHeader(rd, acc.s, key, HValues(rd.Header, key)))

\* the range loop of Song over the keys other than BPM and GAP
RECURSIVE songHeaders(_, _, _)
songHeaders(rd, acc, keys) ==
    IF keys = {} THEN acc
    ELSE songHeaders(rd, applyHeader(rd, acc, CHOOSE k \in keys : TRUE),
                     keys \ {CHOOSE k \in keys : TRUE})

\* the range loop of Song when the map yields its keys in the given order
RECURSIVE songHeadersIn(_, _, _)
songHeadersIn(rd, acc, order) ==
    IF order = <<>> THEN acc
    ELSE IF Head(order) = HeaderBPM \/ Head(order) = HeaderGap
    THEN songHeadersIn(rd, acc, Tail(order))
    ELSE songHeadersIn(rd, applyHeader(rd, acc, Head(order)), Tail(order))

RECURSIVE songFieldsGapInRange(_, _)
songFieldsGapInRange(rd, order) ==
    IF order = <<>> THEN applyHeader(rd, [s |-> NewSong, err |-> {}], HeaderBPM)
    ELSE IF order[Len(order)] = HeaderBPM
    THEN songFieldsGapInRange(rd, SubSeq(order, 1, Len(order) - 1))
    ELSE applyHeader(rd, songFieldsGapInRange(rd, SubSeq(order, 1, Len(order) - 1)),
                     order[Len(order)])

\* the headers of Song when the map yields its keys in the given order: BPM
\* and GAP first, then the other keys
songFieldsIn(rd, order) ==
    songHeadersIn(rd,
                  applyHeader(rd, applyHeader(rd, [s |-> NewSong, err |-> {}], HeaderBPM),
                              HeaderGap),
                  order)

\* the name of voice i in Song
voiceName(rd, i) ==
    IF Get(rd.Header, HeaderVoice(i)) = <<>> /\ rd.Version.Major < 1
    THEN Get(rd.Header, HeaderDuetSinger(i))
    ELSE Get(rd.Header, HeaderVoice(i))

\* the nine voices Song allocates
songVoices(rd) == [i \in 1..9 |-> NewVoice(voiceName(rd, i))]

\* slices.IndexFunc(voices, func(voice) { return voice.Name != "" }) + 1
firstNamed(voices) ==
    IF \E i \in 1..Len(voices) : voices[i].Name # <<>>
    THEN CHOOSE i \in 1..Len(voices) :
             voices[i].Name # <<>> /\ \A j \in 1..(i - 1) : voices[j].Name = <<>>
    ELSE 0

\* the headers of Song: BPM and GAP first, then the other keys
songFields(rd) ==
    songHeaders(rd,
                applyHeader(rd, applyHeader(rd, [s |-> NewSong, err |-> {}], HeaderBPM),
                            HeaderGap),
                (DOMAIN rd.Header) \ {HeaderBPM, HeaderGap})

\* Reader.Song: the Song (its Voices cut after the first named voice), the
\* array of nine voices its Voices slice points into, and the joined errors
Song(rd) ==
    [song |-> [songFields(rd).s EXCEPT
                  !.Voices = SubSeq(songVoices(rd), 1, firstNamed(songVoices(rd)))],
     array |-> songVoices(rd),
     err |-> songFields(rd).err]

\* Reader.Song when the map yields its keys in the given order
SongIn(rd, order) ==
    [song |-> [songFieldsIn(rd, order).s EXCEPT
                  !.Voices = SubSeq(songVoices(rd), 1, firstNamed(songVoices(rd)))],
     array |-> songVoices(rd),
     err |-> songFieldsIn(rd, order).err]

\* song.Voices[voice].AppendNotes(note)
appendTo(voices, voice, note) ==
    [voices EXCEPT ![voice + 1] = AppendNotes(@, note)]

\* the for loop of readSong: the Reader, the voices and the collected errors
\* when it ends, and the error that ended it
RECURSIVE readNotes(_, _, _, _)
readNotes(c, voices, errs, force) ==
    IF c.err.kind = "panic"
    THEN [r |-> c.r, voices |-> voices, errs |-> errs, err |-> c.err]
    ELSE IF c.err.kind = "syntax" /\ force
    THEN IF c.voice \notin 0..8
         THEN [r |-> c.r, voices |-> voices, errs |-> errs \cup {c.err},
               err |-> Panic("index out of range")]
         ELSE readNotes(ReadNote(c.r), appendTo(voices, c.voice, c.note),
                        errs \cup {c.err}, force)
    ELSE IF c.err # NilErr
    THEN [r |-> c.r, voices |-> voices, errs |-> errs, err |-> c.err]
    ELSE readNotes(ReadNote(c.r), appendTo(voices, c.voice, c.note), errs, force)

\* the function passed to slices.DeleteFunc negated: the voice is kept
keepVoice(v) == ~(v.Name = <<>> /\ IsEmpty(v))

\* readSong after its loop: delete, sort, and the returned error
finishSong(s, n, force) ==
    [r |-> n.r,
     song |-> [s EXCEPT
                  !.Voices = [i \in 1..Len(SelectSeq(n.voices, keepVoice)) |->
                                 SortNotes(SelectSeq(n.voices, keepVoice)[i])]],
     err |-> IF n.err.kind = "panic" THEN {n.err}
             ELSE IF n.err = EOF THEN n.errs
             ELSE IF force THEN {n.err}
             ELSE n.errs \cup {n.err}]

\* readSong after r.Song() returned s
readSongFrom(rd, s, force) ==
    IF s.err # {} /\ ~force
    THEN [r |-> rd, song |-> s.song, err |-> s.err]
    ELSE finishSong(s.song,
                    readNotes(ReadNote(rd), s.array, IF force THEN s.err ELSE {}, force),
                    force)

readSong(rd, force) == readSongFrom(rd, Song(rd), force)

ReadSongForce(rd) == readSong(rd, TRUE)

\* Reader.ReadSong
ReaderReadSong(rd) == readSong(rd, FALSE)

\* ReadSong(r) after rd.Reset(r) returned n
readSongReset(n) ==
    IF n.err # {}
    THEN [r |-> n.r, song |-> Song(n.r).song, err |-> n.err]
    ELSE ReaderReadSong(n.r)

\* the function ReadSong(r)
ReadSong(rd) == readSongReset(Reset(ZeroReader, rd))

-----------------------------------------------------------------------------
(* Writer *)

HeaderArtist == <<"A", "R", "T", "I", "S", "T">>

HeaderMP3 == <<"M", "P", "3">>

HeaderAudio == <<"A", "U", "D", "I", "O">>

HeaderVocals == <<"V", "O", "C", "A", "L", "S">>

HeaderInstrumental == <<"I", "N", "S", "T", "R", "U", "M", "E", "N", "T", "A", "L">>

HeaderCover == <<"C", "O", "V", "E", "R">>

HeaderBackground == <<"B", "A", "C", "K", "G", "R", "O", "U", "N", "D">>

HeaderVideo == <<"V", "I", "D", "E", "O">>

HeaderVideoGap == <<"V", "I", "D", "E", "O", "G", "A", "P">>

HeaderGenre == <<"G", "E", "N", "R", "E">>

HeaderEdition == <<"E", "D", "I", "T", "I", "O", "N">>

HeaderTags == <<"T", "A", "G", "S">>

HeaderCreator == <<"C", "R", "E", "A", "T", "O", "R">>

HeaderLanguage == <<"L", "A", "N", "G", "U", "A", "G", "E">>

HeaderStart == <<"S", "T", "A", "R", "T">>

HeaderEnd == <<"E", "N", "D">>

HeaderPreviewStart == <<"P", "R", "E", "V", "I", "E", "W", "S", "T", "A", "R", "T">>

HeaderCalcMedley == <<"C", "A", "L", "C", "M", "E", "D", "L", "E", "Y">>

HeaderComment == <<"C", "O", "M", "M", "E", "N", "T">>

HeaderProvidedBy == <<"P", "R", "O", "V", "I", "D", "E", "D", "B", "Y">>

Version020 == [Major |-> 0, Minor |-> 2, Patch |-> 0]

Version110 == [Major |-> 1, Minor |-> 1, Patch |-> 0]

Version120 == [Major |-> 1, Minor |-> 2, Patch |-> 0]

LessThan(v, v2) == VersionCompare(v, v2) < 0

headers010 ==
    <<HeaderVersion, HeaderTitle, HeaderArtist, HeaderMP3, HeaderBPM>>

headers020 ==
    <<HeaderVersion, HeaderEncoding, HeaderTitle, HeaderArtist,
      HeaderMP3, HeaderBPM, HeaderGap, HeaderCover, HeaderBackground,
      HeaderVideo, HeaderVideoGap, HeaderGenre, HeaderEdition,
      HeaderCreator, HeaderLanguage, HeaderYear, HeaderStart, HeaderEnd,
      HeaderPreviewStart, HeaderMedleyStartBeat, HeaderMedleyEndBeat,
      HeaderCalcMedley, HeaderComment, HeaderRelative>>

headers030 == headers020

headers100 ==
    <<HeaderVersion, HeaderTitle, HeaderArtist, HeaderMP3, HeaderBPM,
      HeaderGap, HeaderCover, HeaderBackground, HeaderVideo,
      HeaderVideoGap, HeaderGenre, HeaderEdition, HeaderCreator,
      HeaderLanguage, HeaderYear, HeaderStart, HeaderEnd,
      HeaderPreviewStart, HeaderMedleyStartBeat, HeaderMedleyEndBeat,
      HeaderCalcMedley, HeaderComment>>

headers110 ==
    <<HeaderVersion, HeaderTitle, HeaderArtist, HeaderMP3, HeaderAudio,
      HeaderVocals, HeaderInstrumental, HeaderBPM, HeaderGap,
      HeaderCover, HeaderBackground, HeaderVideo, HeaderVideoGap,
      HeaderGenre, HeaderEdition, HeaderTags, HeaderCreator,
      HeaderLanguage, HeaderYear, HeaderStart, HeaderEnd,
      HeaderPreviewStart, HeaderMedleyStartBeat, HeaderMedleyEndBeat,
      HeaderCalcMedley, HeaderComment, HeaderProvidedBy>>

\* the characters of the model in the order of their byte values
Bytes ==
    <<"\t", "\n", " ", "#", "*", "+", "-", ".">> \o Digits \o <<":">> \o UpperChars \o LowerChars

ByteOf(c) == CHOOSE i \in 1..Len(Bytes) : Bytes[i] = c

\* cmp.Compare(a, b) < 0 for strings
RECURSIVE StringLess(_, _)
StringLess(a, b) ==
    IF b = <<>> THEN FALSE
    ELSE IF a = <<>> THEN TRUE
    ELSE IF Head(a) # Head(b) THEN ByteOf(Head(a)) < ByteOf(Head(b))
    ELSE StringLess(Tail(a), Tail(b))

\* slices.Index(s, v): the 0-based index of v in s, -1 when it is not in s
Index(s, v) ==
    IF \E i \in 1..Len(s) : s[i] = v
    THEN (CHOOSE i \in 1..Len(s) : s[i] = v /\ \A j \in 1..(i - 1) : s[j] # v) - 1
    ELSE 0 - 1

\* NewWriter(wr, version)
NewWriter(version) ==
    [Version |-> version, FieldSeparator |-> " ", Relative |-> FALSE,
     rel |-> ZeroRel, voice |-> 0]

\* the standard headers WriteHeader chooses for a version
standardHeaders(version) ==
    IF LessThan(version, Version020) THEN headers010
    ELSE IF LessThan(version, Version030) THEN headers020
    ELSE IF LessThan(version, Version100) THEN headers030
    ELSE IF LessThan(version, Version110) THEN headers100
    ELSE headers110

\* the comparison function of WriteHeader is negative for the keys k1, k2
keyBefore(std, k1, k2) ==
    IF Index(std, k1) = Index(std, k2) THEN StringLess(k1, k2)
    ELSE IF Index(std, k1) < 0 THEN FALSE
    ELSE IF Index(std, k2) < 0 THEN TRUE
    ELSE Index(std, k1) < Index(std, k2)

\* the keys of WriteHeader after slices.SortFunc
RECURSIVE sortKeys(_, _)
sortKeys(std, keys) ==
    IF keys = {} THEN <<>>
    ELSE <<CHOOSE k \in keys : \A k2 \in keys \ {k} : keyBefore(std, k, k2)>>
         \o sortKeys(std, keys \ {CHOOSE k \in keys : \A k2 \in keys \ {k} : keyBefore(std, k, k2)})

\* WriteHeaderLine(key, value): the line written
WriteHeaderLine(key, value) == <<"#">> \o key \o <<":">> \o value

\* the lines WriteHeader writes for the sorted keys
RECURSIVE writeHeaderLines(_, _)
writeHeaderLines(h, keys) ==
    IF keys = <<>> THEN <<>>
    ELSE [i \in 1..Len(h[Head(keys)]) |-> WriteHeaderLine(Head(keys), h[Head(keys)][i])]
         \o writeHeaderLines(h, Tail(keys))

\* Writer.WriteHeader(h): the lines written
WriteHeader(wr, h) == writeHeaderLines(h, sortKeys(standardHeaders(wr.Version), DOMAIN h))

\* strconv.AppendFloat(nil, value, 'f', -1, 64) for a whole number
AppendFloat(value) == Itoa(value)

SetFloat(h, key, value) == Set(h, key, AppendFloat(value))

\* the steps of songHeader for the fields of the model, in its order
gapHeader(h, s) == IF s.Gap # 0 THEN SetInt64(h, HeaderGap, s.Gap) ELSE h

titleHeader(h, s) == IF s.Title # <<>> THEN Set(h, HeaderTitle, s.Title) ELSE h

\* h.SetFloat(HeaderBPM, float64(s.BPM))
bpmHeader(h, s) == SetFloat(h, HeaderBPM, s.BPM)

\* songHeader(s, v) for the fields of the model; MedleyStart and MedleyEnd are
\* zero in every Song the model writes, and zero fields set no header
songHeader(s, v) ==
    SetInt(titleHeader(gapHeader(bpmHeader(s.Header, s), s), s), HeaderYear, s.Year)

\* Writer.VoiceChange
VoiceChange(wr) == [wr EXCEPT !.voice = 0 - 1]

voiceLineAlways(wr, voice) == <<<<"P">> \o Itoa(voice + 1)>>

\* the voice change line WriteNote writes before a note of a new voice
voiceLine(wr, voice) ==
    IF voice # wr.voice THEN <<<<"P">> \o Itoa(voice + 1)>> ELSE <<>>

\* the note line of WriteNote, n.Start being adjusted already
noteLine(wr, n) ==
    IF IsEndOfPhrase(n.Type)
    THEN IF wr.Relative
         THEN <<NoteTypeEndOfPhrase, wr.FieldSeparator>> \o Itoa(n.Start)
              \o <<wr.FieldSeparator>> \o Itoa(n.Start)
         ELSE <<NoteTypeEndOfPhrase, wr.FieldSeparator>> \o Itoa(n.Start)
    ELSE <<n.Type, wr.FieldSeparator>> \o Itoa(n.Start) \o <<wr.FieldSeparator>>
         \o Itoa(n.Duration) \o <<wr.FieldSeparator>> \o Itoa(n.Pitch)
         \o <<wr.FieldSeparator>> \o n.Text

relStartNone(wr, n, voice) == n

\* if w.Relative { n.Start -= w.rel[voice] }
relStart(wr, n, voice) ==
    IF wr.Relative THEN [n EXCEPT !.Start = @ - wr.rel[voice + 1]] ELSE n

\* the Writer after WriteNote wrote n (adjusted) for voice
noteWritten(wr, n, voice) ==
    IF IsEndOfPhrase(n.Type) /\ wr.Relative
    THEN [wr EXCEPT !.voice = voice, !.rel[voice + 1] = @ + n.Start]
    ELSE [wr EXCEPT !.voice = voice]

\* Writer.WriteNote(n, voice): the Writer after it, the lines written, and
\* whether it panicked
WriteNote(wr, n, voice) ==
    IF voice < 0 \/ voice > 8
    THEN [w |-> wr, lines |-> <<>>, panic |-> TRUE]
    ELSE [w |-> noteWritten(wr, relStart(wr, n, voice), voice),
          lines |-> voiceLine(wr, voice) \o <<noteLine(wr, relStart(wr, n, voice))>>,
          panic |-> FALSE]

\* one more WriteNote: acc is the Writer, the lines written and the panic flag
writeNext(acc, n) ==
    [w |-> n.w, lines |-> acc.lines \o n.lines, panic |-> n.panic]

\* the loops of WriteSong from note j of voice i (both 1-based) on
RECURSIVE writeNotes(_, _, _, _)
writeNotes(acc, voices, i, j) ==
    IF acc.panic \/ i > Len(voices) THEN acc
    ELSE IF j > Len(voices[i].Notes) THEN writeNotes(acc, voices, i + 1, 1)
    ELSE writeNotes(writeNext(acc, WriteNote(acc.w, voices[i].Notes[j], i - 1)),
                    voices, i, j + 1)

\* if w.Version.IsZero() { w.Version = Version030 }
writerVersion(wr) ==
    IF VersionIsZero(wr.Version) THEN [wr EXCEPT !.Version = Version030] ELSE wr

\* the header WriteSong writes
writeSongHeader(wr, s) ==
    IF wr.Relative
    THEN Set(Set(songHeader(s, wr.Version), HeaderVersion, VersionString(wr.Version)),
             HeaderRelative, <<"Y", "E", "S">>)
    ELSE Del(Set(songHeader(s, wr.Version), HeaderVersion, VersionString(wr.Version)),
             HeaderRelative)

\* len(s.Voices) > 1
IsDuet(s) == Len(s.Voices) > 1

\* WriteSong after the version is set
writeSongNotes(wr, s) ==
    writeNotes([w |-> IF IsDuet(s) THEN VoiceChange(wr) ELSE wr,
                lines |-> WriteHeader(wr, writeSongHeader(wr, s)),
                panic |-> FALSE],
               s.Voices, 1, 1)

\* Writer.WriteSong(s): the Writer after it, the lines written, and whether
\* it panicked
WriteSong(wr, s) == writeSongNotes(writerVersion(wr), s)

\* Writer.Close: the line written
Close == <<<<"E">>>>

-----------------------------------------------------------------------------
(* The lines the inputs of the model are made of *)

LineBPM == <<"#", "B", "P", "M", ":", "3">>

LineRelative == <<"#", "R", "E", "L", "A", "T", "I", "V", "E", ":", "y", "e", "s">>

LineVersion1 == <<"#", "V", "E", "R", "S", "I", "O", "N", ":", "1", ".", "0", ".", "0">>

LineEncoding == <<"#", "E", "N", "C", "O", "D", "I", "N", "G", ":", "C", "P", "1", "2", "5", "2">>

LineNote == <<":", " ", "1", " ", "2", " ", "0", " ", "a">>

LineGolden == <<"*", " ", "0", " ", "1", " ", "3", " ", "b">>

LineBreakRel == <<"-", " ", "2", " ", "3">>

LineBreak == <<"-", " ", "1">>

LineP2 == <<"P", "2">>

LineP1 == <<"P", " ", "1">>

LineP10 == <<"P", "1", "0">>

LineP0 == <<"P", "0">>

LineEnd == <<"E">>

LineTitle == <<"#", "T", "I", "T", "L", "E", ":", "a">>

LineYear == <<"#", "Y", "E", "A", "R", ":", "5">>

LineYearX == <<"#", "Y", "E", "A", "R", ":", "x">>

LineVoice2 == <<"#", "P", "2", ":", "b">>

LineEmpty == <<>>

LineBlank == <<" ">>

LineUnknown == <<"X", " ", "1", " ", "2", " ", "0", " ", "a">>

LineSpaceNote == <<" ", ":", " ", "3", " ", "2", " ", "0", " ", "b">>

LineVersionX == <<"#", "V", "E", "R", "S", "I", "O", "N", ":", "x">>

\* a line that holds only the # sign, and a header line without a colon
LineHash == <<"#">>

LineNoColon == <<"#", "k", "e", "y">>

LineEncodingX == <<"#", "E", "N", "C", "O", "D", "I", "N", "G", ":", "x">>

LineRelativeNo == <<"#", "R", "E", "L", "A", "T", "I", "V", "E", ":", "n", "o">>

\* all sequences over S of length at most n
SeqsUpTo(S, n) == UNION {[1..k -> S] : k \in 0..n}

-----------------------------------------------------------------------------
(* Specification Spec: a client that reads a file note by note with ReadNote *)
(* and may rebind its Reader to another input with Reset.                    *)

MaxBody == 3

MaxCalls == 5

MaxResets == 1

StreamLines == {LineNote, LineBreakRel, LineP2, LineP1, LineP10, LineP0, LineEnd}

StreamHeaders == {<<LineBPM>>, <<LineBPM, LineRelative>>}

StreamFiles == {h \o b : h \in StreamHeaders, b \in SeqsUpTo(StreamLines, MaxBody)}

ResetFiles ==
    {<<LineRelative, LineBreakRel, LineNote>>,
     <<LineVersion1, LineRelative, LineP2, LineNote, LineEnd>>,
     <<LineEncoding, LineNote>>}

NoWriter == NewWriter(ZeroVersion)

\* what the Reader had done when Reset was last called: the kinds of results
\* its ReadNote calls returned, whether it had read the end tag, and whether
\* a relative offset was non-zero
NothingBefore == [errs |-> {}, done |-> FALSE, offsets |-> FALSE]

Init ==
    /\ file \in StreamFiles
    /\ r = NewReader(file).r
    /\ res = NewReader(file).err
    /\ pc = "new"
    /\ hist = <<>>
    /\ before = NothingBefore
    /\ resets = 0
    /\ song = NewSong
    /\ w = NoWriter
    /\ out = <<>>
    /\ back = NewSong
    /\ header = EmptyHeader

\* note, voice, err := r.ReadNote(); line := r.Line()
ReadNoteStep ==
    /\ pc \in {"new", "reset", "read"}
    /\ Len(hist) < MaxCalls
    /\ \E c \in {ReadNote(r)} :
         /\ r' = c.r
         /\ hist' = Append(hist, [note |-> c.note, voice |-> c.voice,
                                  err |-> c.err, line |-> c.r.line])
         /\ pc' = IF c.err.kind = "panic" THEN "panic" ELSE "read"
    /\ UNCHANGED <<file, before, resets, res, song, w, out, back, header>>

\* err := r.Reset(rd)
ResetStep ==
    /\ pc \in {"new", "reset", "read"}
    /\ resets < MaxResets
    /\ \E rd \in ResetFiles :
         \E n \in {Reset(r, rd)} :
           /\ file' = rd
           /\ r' = n.r
           /\ res' = n.err
    /\ hist' = <<>>
    /\ before' = [errs |-> {hist[i].err.kind : i \in 1..Len(hist)},
                  done |-> r.done, offsets |-> r.rel # ZeroRel]
    /\ resets' = resets + 1
    /\ pc' = "reset"
    /\ UNCHANGED <<song, w, out, back, header>>

Next == ReadNoteStep \/ ResetStep

Spec == Init /\ [][Next]_vars

-----------------------------------------------------------------------------
(* What the lines of a file say, read off the text of the file alone *)

IsBlank(l) == TrimSpace(l) = <<>>

\* the 0-based voice a voice change line `P N` selects, -1 for any other line
VoiceChangeOf(l) ==
    IF l # <<>> /\ l[1] = "P" /\ Atoi(TrimSpace(Tail(TrimSpace(l)))).ok
                /\ Atoi(TrimSpace(Tail(TrimSpace(l)))).val > 0
    THEN Atoi(TrimSpace(Tail(TrimSpace(l)))).val - 1
    ELSE 0 - 1

\* the voice in effect on line k of f: that of the most recent voice change
\* line before it, P1 when there is none
RECURSIVE VoiceAt(_, _)
VoiceAt(f, k) ==
    IF k <= 1 THEN 0
    ELSE IF VoiceChangeOf(f[k - 1]) >= 0 THEN VoiceChangeOf(f[k - 1])
    ELSE VoiceAt(f, k - 1)

\* the first and the second number written on a note line
WrittenStart(l) == Atoi(nextField(Tail(l)).field).val

WrittenOffset(l) == Atoi(nextField(nextField(Tail(l)).rem).field).val

\* an end-of-phrase line of a relative file: `- START OFFSET`
IsRelativeBreak(l) ==
    /\ l # <<>>
    /\ l[1] = "-"
    /\ Atoi(nextField(Tail(l)).field).ok
    /\ Atoi(nextField(nextField(Tail(l)).rem).field).ok
    /\ IsBlank(nextField(nextField(Tail(l)).rem).rem)

\* the sum of the OFFSETs of the end-of-phrase lines of voice v among the
\* first k lines of f
RECURSIVE SumOffsets(_, _, _)
SumOffsets(f, k, v) ==
    IF k = 0 THEN 0
    ELSE SumOffsets(f, k - 1, v)
         + (IF IsRelativeBreak(f[k]) /\ VoiceAt(f, k) = v THEN WrittenOffset(f[k]) ELSE 0)

\* the number of lines the header of f takes
BodyStart(f) == NewReader(f).r.line

\* the line the Reader stood at before its i-th ReadNote call
PrevLine(i) == IF i = 1 THEN BodyStart(file) ELSE hist[i - 1].line

\* the i-th ReadNote call read the end tag
EndTagAt(i) ==
    /\ hist[i].err = EOF
    /\ hist[i].line >= 1
    /\ TrimSpace(file[hist[i].line]) = <<"E">>

-----------------------------------------------------------------------------
(* Claims about ReadNote and Reset, under Spec *)

\* C5: every note ReadNote returns is the next note line of the file (only
\* blank lines and voice changes lie between it and the line the previous call
\* stopped at), and the voice returned with it is N - 1 for the most recent
\* `P N` line before it (P1 when there is none): of several voice changes
\* between two notes only the last one counts.
C5_NotesInSourceOrder ==
    \A i \in 1..Len(hist) :
        hist[i].err = NilErr =>
            /\ hist[i].line > PrevLine(i)
            /\ \A k \in (PrevLine(i) + 1)..(hist[i].line - 1) :
                   IsBlank(file[k]) \/ VoiceChangeOf(file[k]) >= 0
            /\ hist[i].note.Type = file[hist[i].line][1]
            /\ hist[i].voice = VoiceAt(file, hist[i].line)

\* a note was returned for P2 after the two voice changes `P 1`, `P2`
C5_Witness ==
    \E i \in 1..Len(hist) :
        /\ hist[i].err = NilErr
        /\ hist[i].line >= 3
        /\ file[hist[i].line - 2] = LineP1
        /\ file[hist[i].line - 1] = LineP2
        /\ file[hist[i].line] = LineNote
        /\ hist[i].voice = 1

\* C6: in relative mode the Start of a returned note is the start written on
\* its line plus the sum of the OFFSETs of the end-of-phrase lines that
\* precede it in the same voice; each voice has its own counter, which keeps
\* its value between calls and across voice changes.
C6_RelativeOffsets ==
    r.Relative =>
        /\ \A i \in 1..Len(hist) :
               hist[i].err = NilErr =>
                   hist[i].note.Start =
                       WrittenStart(file[hist[i].line])
                       + SumOffsets(file, hist[i].line - 1, hist[i].voice)
        /\ \A v \in 0..8 : r.rel[v + 1] = SumOffsets(file, r.line, v)

\* a relative file: after a voice change to P2 an end-of-phrase line, then a
\* note of P2 that a later call returns shifted by the offset, P1's counter
\* still being 0
C6_Witness ==
    /\ r.Relative
    /\ \E i \in 2..Len(hist) :
           /\ hist[i].err = NilErr
           /\ hist[i - 1].err = NilErr
           /\ file[hist[i - 1].line - 1] = LineP2
           /\ file[hist[i - 1].line] = LineBreakRel
           /\ file[hist[i].line] = LineNote
           /\ hist[i].voice = 1
           /\ hist[i].note.Start = 4
           /\ r.rel[1] = 0
           /\ r.rel[2] = 3

\* C7: the ReadNote call that reads the end tag `E` returns io.EOF, and so
\* does every later call; no line after the end tag is read.
C7_EndTagIsFinal ==
    \A i \in 1..Len(hist) :
        EndTagAt(i) =>
            \A j \in i..Len(hist) :
                /\ hist[j].err = EOF
                /\ hist[j].note = ZeroNote
                /\ hist[j].line = hist[i].line
                /\ r.line = hist[i].line

\* the end tag was read with a note line right after it, and ReadNote was
\* called twice more
C7_Witness ==
    \E i \in 1..Len(hist) :
        /\ EndTagAt(i)
        /\ Len(hist) >= i + 2
        /\ hist[i].line < Len(file)
        /\ file[hist[i].line + 1] = LineNote

\* C9: when Reset(rd) returns, the Reader is in the state of the Reader
\* NewReader(rd) returns, and Reset returns the error NewReader's Reset
\* found: nothing of the input it was bound to before remains.
C9_ResetLikeNewReader ==
    pc = "reset" => (r = NewReader(file).r /\ res = NewReader(file).err)

\* Reset was called on a Reader that had returned a note and a syntax error,
\* had a non-zero relative offset and had read the end tag
C9_Witness ==
    /\ pc = "reset"
    /\ before.done
    /\ before.offsets
    /\ {"nil", "syntax", "EOF"} \subseteq before.errs

-----------------------------------------------------------------------------
(* Specification SpecSong: a client that reads a whole file into a Song,   *)
(* with the function ReadSong or with NewReader and Reader.ReadSong, and   *)
(* writes the Song back with a Writer of the Reader's version.             *)

MaxSongBody == 3

SongLines == {LineNote, LineGolden, LineBreak, LineP2, LineEnd}

SongHeaders ==
    {<<LineBPM>>, <<LineBPM, LineRelative>>, <<>>, <<LineBPM, LineYearX>>,
     <<LineBPM, LineVoice2>>, <<LineVersion1, LineTitle, LineBPM, LineYear>>,
     <<LineVersionX, LineBPM>>}

SongFiles == {h \o b : h \in SongHeaders, b \in SeqsUpTo(SongLines, MaxSongBody)}

InitSong ==
    /\ file \in SongFiles
    /\ r = NewReader(file).r
    /\ res = NewReader(file).err
    /\ pc = "new"
    /\ hist = <<>>
    /\ before = NothingBefore
    /\ resets = 0
    /\ song = NewSong
    /\ w = NoWriter
    /\ out = <<>>
    /\ back = NewSong
    /\ header = EmptyHeader

\* song, err := ReadSong(file), in place of the NewReader call
ParseSongStep ==
    /\ pc = "new"
    /\ \E n \in {ReadSong(file)} :
         /\ r' = n.r
         /\ song' = n.song
         /\ res' = n.err
    /\ pc' = "parsed"
    /\ UNCHANGED <<file, hist, before, resets, w, out, back, header>>

\* song, err := r.ReadSong()
ReaderReadSongStep ==
    /\ pc = "new"
    /\ \E n \in {ReaderReadSong(r)} :
         /\ r' = n.r
         /\ song' = n.song
         /\ res' = n.err
    /\ pc' = "read"
    /\ UNCHANGED <<file, hist, before, resets, w, out, back, header>>

\* w := NewWriter(out, r.Version); w.WriteSong(song)
WriteBackStep ==
    /\ pc \in {"parsed", "read"}
    /\ res = {}
    /\ \E n \in {WriteSong(NewWriter(r.Version), song)} :
         /\ w' = n.w
         /\ out' = n.lines
    /\ pc' = "written"
    /\ UNCHANGED <<file, r, hist, before, resets, song, res, back, header>>

\* w.Close()
CloseStep ==
    /\ pc = "written"
    /\ out' = out \o Close
    /\ pc' = "closed"
    /\ UNCHANGED <<file, r, hist, before, resets, song, res, w, back, header>>

NextSong == ParseSongStep \/ ReaderReadSongStep \/ WriteBackStep \/ CloseStep

SpecSong == InitSong /\ [][NextSong]_vars

\* the notes the ReadNote calls return, with their voices, from the result c
\* of a first call on, up to the first error
RECURSIVE notesFrom(_)
notesFrom(c) ==
    IF c.err # NilErr THEN <<>>
    ELSE <<[note |-> c.note, voice |-> c.voice]>> \o notesFrom(ReadNote(c.r))

\* the notes of the file in the order of their lines, with their voices
NotesRead == notesFrom(ReadNote(NewReader(file).r))

\* the notes of voice k (0-based) in the order of their lines
RECURSIVE voiceNotes(_, _)
voiceNotes(nvs, k) ==
    IF nvs = <<>> THEN <<>>
    ELSE IF Head(nvs).voice = k THEN <<Head(nvs).note>> \o voiceNotes(Tail(nvs), k)
    ELSE voiceNotes(Tail(nvs), k)

Orders(n) == {p \in [1..n -> 1..n] : \A i, j \in 1..n : i # j => p[i] # p[j]}

\* a is b ordered by non-decreasing Start, notes of equal Start keeping the
\* order they have in b
IsStableSortOf(a, b) ==
    /\ Len(a) = Len(b)
    /\ \E p \in Orders(Len(a)) :
         /\ \A i \in 1..Len(a) : a[i] = b[p[i]]
         /\ \A i, j \in 1..Len(a) :
              i < j => \/ a[i].Start < a[j].Start
                       \/ a[i].Start = a[j].Start /\ p[i] < p[j]

SongRead == pc \in {"parsed", "read"}

\* C1: after ReadSong the notes of every voice of the Song are ordered by
\* non-decreasing Start, and the notes of a voice that have the same Start
\* are in the order of their lines in the file: the voice is the stable sort
\* of the notes the file holds for one voice.
C1_VoicesSortedStably ==
    SongRead =>
      \A i \in 1..Len(song.Voices) :
        /\ \A j, k \in 1..Len(song.Voices[i].Notes) :
             j < k => song.Voices[i].Notes[j].Start <= song.Voices[i].Notes[k].Start
        /\ song.Voices[i].Notes # <<>> =>
             \E k \in 0..8 : IsStableSortOf(song.Voices[i].Notes, voiceNotes(NotesRead, k))

\* C1 witness: ReadSong returned a voice whose three notes were moved by the
\* sort (the first line of the file is not the first note) and whose last two
\* notes are different notes with the same Start.
C1_Witness ==
    /\ pc = "parsed"
    /\ res = {}
    /\ \E i \in 1..Len(song.Voices) :
         /\ Len(song.Voices[i].Notes) = 3
         /\ song.Voices[i].Notes[2].Start = song.Voices[i].Notes[3].Start
         /\ song.Voices[i].Notes[2] # song.Voices[i].Notes[3]
         /\ song.Voices[i].Notes[1] # NotesRead[1].note

\* the voices of the file that hold a note that is not an end of phrase
SungVoices ==
    {k \in 0..8 : \E i \in 1..Len(NotesRead) :
        NotesRead[i].voice = k /\ ~IsEndOfPhrase(NotesRead[i].note.Type)}

\* C8: after a ReadSong without error the notes read under the voice change
\* `P N` are found in Voices[N-1].
C8_NotesInVoiceOfChange ==
    (SongRead /\ res = {}) =>
      \A k \in SungVoices :
        /\ k + 1 <= Len(song.Voices)
        /\ IsStableSortOf(song.Voices[k + 1].Notes, voiceNotes(NotesRead, k))

\* the header of the file has an invalid value for the ReadSong that ran:
\* Reader.Song reports it, or (for the function ReadSong) Reset did
HeaderInvalid ==
    \/ SongRead /\ Song(NewReader(file).r).err # {}
    \/ pc = "parsed" /\ NewReader(file).err # {}

NoteCount(s) ==
    Cardinality({<<i, j>> \in (1..9) \X (1..(MaxSongBody + 1)) :
                   i <= Len(s.Voices) /\ j <= Len(s.Voices[i].Notes)})

\* C10 as stated: with an invalid header value ReadSong returns the errors and
\* still reads all note lines into the voices of the Song it returns.
C10_ContinuesAfterHeaderError ==
    HeaderInvalid => (res # {} /\ NoteCount(song) = Len(NotesRead))

\* C10: with an invalid header value ReadSong returns the header errors and
\* stops there: it has read no note line (the Reader is as NewReader left it)
\* and no voice of the Song it returns holds a note.
C10_StopsAtHeaderError ==
    HeaderInvalid =>
      /\ res # {}
      /\ \A e \in res : DOMAIN e = {"Key", "Err"}
      /\ r = NewReader(file).r
      /\ \A i \in 1..Len(song.Voices) : song.Voices[i].Notes = <<>>

\* C10 witness: ReadSong returned header errors for a file that holds notes.
C10_Witness ==
    /\ pc = "parsed"
    /\ Song(NewReader(file).r).err # {}
    /\ res # {}
    /\ Len(NotesRead) >= 2

\* the file is well formed: the header lines in canonical order, note lines in
\* absolute mode with space-separated fields, and a final `E` line
WellFormed(f) ==
    /\ Len(f) >= 5
    /\ SubSeq(f, 1, 4) = <<LineVersion1, LineTitle, LineBPM, LineYear>>
    /\ f[Len(f)] = LineEnd
    /\ \A i \in 5..(Len(f) - 1) : f[i] \in {LineNote, LineGolden, LineBreak}
    /\ \A i, j \in 5..(Len(f) - 1) : i < j => WrittenStart(f[i]) <= WrittenStart(f[j])

\* C3: for a well-formed file, writing the Song read from it with a Writer of
\* the Reader's version (and closing the Writer) gives back the lines of the
\* file.
C3_WritesFileBack ==
    (pc = "closed" /\ WellFormed(file)) =>
      (out = file \/ SubSeq(out, 1, Len(out) - 1) = file)

-----------------------------------------------------------------------------
(* Specification SpecWrite: a client that holds a Song whose voices are    *)
(* sorted, writes it with a Writer (Relative off or on), may close the     *)
(* Writer, and reads the lines written back with ReadSong.                 *)

MaxVoices == 2

NoteA == [Type |-> ":", Start |-> 1, Duration |-> 2, Pitch |-> 0, Text |-> <<"a">>]

NoteB == [Type |-> "*", Start |-> 3, Duration |-> 1, Pitch |-> 3, Text |-> <<"b">>]

\* an end of phrase as parseNote makes it
NoteBreak == [ZeroNote EXCEPT !.Type = NoteTypeEndOfPhrase, !.Start = 2, !.Text = <<"\n">>]

VoiceNotes == {<<>>, <<NoteA>>, <<NoteA, NoteBreak, NoteB>>, <<NoteBreak, NoteB>>}

SongBPMs == {4, 12}

WriterVersions == {ZeroVersion, Version120}

WriteSongs ==
    {[NewSong EXCEPT !.BPM = b,
                     !.Voices = [i \in 1..Len(ns) |-> [Name |-> <<>>, Notes |-> ns[i]]]] :
        b \in SongBPMs, ns \in SeqsUpTo(VoiceNotes, MaxVoices)}

InitWrite ==
    /\ song \in WriteSongs
    /\ file = <<>>
    /\ r = ZeroReader
    /\ res = {}
    /\ pc = "song"
    /\ hist = <<>>
    /\ before = NothingBefore
    /\ resets = 0
    /\ w = NoWriter
    /\ out = <<>>
    /\ back = NewSong
    /\ header = EmptyHeader

\* w := NewWriter(out, version); w.Relative = rel; w.WriteSong(song)
\* Relative is a mode of the versions below 1.0.0 only
WriteSongStep ==
    /\ pc = "song"
    /\ \E version \in WriterVersions, rel \in BOOLEAN :
         /\ rel => version = ZeroVersion
         /\ \E n \in {WriteSong([NewWriter(version) EXCEPT !.Relative = rel], song)} :
              /\ w' = n.w
              /\ out' = n.lines
    /\ pc' = "written"
    /\ UNCHANGED <<file, r, hist, before, resets, song, res, back, header>>

\* back, err := ReadSong(out)
ReadBackStep ==
    /\ pc \in {"written", "closed"}
    /\ \E n \in {ReadSong(out)} :
         /\ r' = n.r
         /\ back' = n.song
         /\ res' = n.err
    /\ pc' = "readback"
    /\ UNCHANGED <<file, hist, before, resets, song, w, out, header>>

NextWrite == WriteSongStep \/ CloseStep \/ ReadBackStep

SpecWrite == InitWrite /\ [][NextWrite]_vars

\* the notes of voice i (1-based) of s, none when s has no such voice
NotesOfVoice(s, i) == IF i <= Len(s.Voices) THEN s.Voices[i].Notes ELSE <<>>

\* C2: writing a Song whose voices are sorted and reading the output back in
\* the matching mode yields, voice by voice, the notes of the Song.
C2_NotesRoundTrip ==
    pc = "readback" => \A i \in 1..9 : NotesOfVoice(back, i) = NotesOfVoice(song, i)

\* C4: writing a Song and reading the output back leaves Song.BPM unchanged.
C4_BPMRoundTrip ==
    pc = "readback" => back.BPM = song.BPM

-----------------------------------------------------------------------------
(* Specification SpecLines: the client of Spec, or a client calling the    *)
(* function ReadSong, on files with empty and blank lines, lines that do   *)
(* not parse, and a line of a note type the file format does not define.   *)

LinesHeaders == {<<LineBPM>>, <<LineTitle, LineBPM>>}

LinesBody ==
    {LineNote, LineEmpty, LineBlank, LineUnknown, LineSpaceNote, LineP2, LineP0}

LinesFiles == {h \o b : h \in LinesHeaders, b \in SeqsUpTo(LinesBody, MaxBody)}

InitLines ==
    /\ file \in LinesFiles
    /\ r = NewReader(file).r
    /\ res = NewReader(file).err
    /\ pc = "new"
    /\ hist = <<>>
    /\ before = NothingBefore
    /\ resets = 0
    /\ song = NewSong
    /\ w = NoWriter
    /\ out = <<>>
    /\ back = NewSong
    /\ header = EmptyHeader

NextLines == ReadNoteStep \/ ResetStep \/ ParseSongStep

SpecLines == InitLines /\ [][NextLines]_vars

\* the lines of the inputs that do not parse: a voice change to P0 and a note
\* line with leading white space
BadLines == {LineP0, LineSpaceNote}

\* a line ReadNote passes over on its way to the next note line
IsPassedOver(l) == IsBlank(l) \/ VoiceChangeOf(l) >= 0

IsSyntaxError(e) == "kind" \in DOMAIN e /\ e.kind = "syntax"

\* C11: a SyntaxError returned by ReadNote carries the number (1-based, every
\* line of the input counted) of the line that does not parse, which is the
\* first line after the line of the previous call that ReadNote does not pass
\* over; a SyntaxError returned by ReadSong carries the number of the first
\* line of the body that does not parse.
C11_SyntaxErrorLine ==
    /\ \A i \in 1..Len(hist) :
         hist[i].err.kind = "syntax" =>
           /\ hist[i].err.line \in (PrevLine(i) + 1)..Len(file)
           /\ file[hist[i].err.line] \in BadLines
           /\ \A j \in (PrevLine(i) + 1)..(hist[i].err.line - 1) : IsPassedOver(file[j])
    /\ pc = "parsed" =>
         \A e \in res :
           IsSyntaxError(e) =>
             /\ e.line \in (BodyStart(file) + 1)..Len(file)
             /\ file[e.line] \in BadLines
             /\ \A j \in (BodyStart(file) + 1)..(e.line - 1) : file[j] \notin BadLines

\* C11 witness: the first ReadNote call returns a SyntaxError for line 4, after
\* a header line, an empty line and the voice change line that the header loop
\* had pushed back.
C11_Witness ==
    /\ Len(hist) >= 1
    /\ hist[1].err.kind = "syntax"
    /\ hist[1].err.line = 4
    /\ SubSeq(file, 1, 3) = <<LineBPM, LineEmpty, LineP2>>
    /\ BodyStart(file) = 2

\* the standard note types
StandardNoteTypes == {":", "*", "F", "R", "G", "-"}

\* C20 as stated: ReadNote returns no Note of a Type outside the six note
\* types without an error.
C20_UnknownTypeRejected ==
    \A i \in 1..Len(hist) :
        hist[i].err = NilErr => hist[i].note.Type \in StandardNoteTypes

\* C20: a Note that ReadNote returns without an error has the first byte of
\* its line as Type, whatever byte other than E and P that is, and a
\* SyntaxError of ReadNote carries the number of the line the Reader stands at.
C20_TypeIsFirstByte ==
    \A i \in 1..Len(hist) :
        /\ hist[i].err = NilErr =>
             /\ hist[i].line \in 1..Len(file)
             /\ file[hist[i].line] # <<>>
             /\ hist[i].note.Type = file[hist[i].line][1]
             /\ hist[i].note.Type \notin {"E", "P"}
        /\ hist[i].err.kind = "syntax" => hist[i].err.line = hist[i].line

\* C20 witness: ReadNote returned the note of the line `X 1 2 0 a` with the
\* Type X and no error.
C20_Witness ==
    /\ Len(hist) >= 1
    /\ hist[1].err = NilErr
    /\ hist[1].note.Type = "X"
    /\ file[hist[1].line] = LineUnknown

\* C19: the voice of the Reader stays within 0..8 (P1..P9) and no ReadNote
\* call panics.
C19_VoiceInRange ==
    /\ r.voice \in 0..8
    /\ pc # "panic"
    /\ \A i \in 1..Len(hist) : hist[i].err.kind # "panic"

-----------------------------------------------------------------------------
(* Specification SpecNotes: a client that writes notes one by one with     *)
(* WriteNote, calling VoiceChange at will, or writes its Song at once with *)
(* WriteSong.                                                              *)

MaxWrites == 4

NoteVoices == {0, 1, 8}

NotesSongs ==
    {[NewSong EXCEPT !.BPM = 4,
                     !.Voices = [i \in 1..Len(ns) |-> [Name |-> <<>>, Notes |-> ns[i]]]] :
        ns \in {<<<<NoteA>>>>, <<<<NoteA>>, <<NoteB>>>>, <<<<NoteA, NoteB>>, <<>>>>}}

InitNotes ==
    /\ song \in NotesSongs
    /\ file = <<>>
    /\ r = ZeroReader
    /\ res = {}
    /\ pc = "song"
    /\ hist = <<>>
    /\ before = NothingBefore
    /\ resets = 0
    /\ w = NoWriter
    /\ out = <<>>
    /\ back = NewSong
    /\ header = EmptyHeader

\* w.WriteNote(n, voice)
WriteNoteStep ==
    /\ pc \in {"song", "notes"}
    /\ Len(hist) < MaxWrites
    /\ \E voice \in NoteVoices :
         \E n \in {WriteNote(w, NoteA, voice)} :
           /\ w' = n.w
           /\ out' = out \o n.lines
           /\ hist' = Append(hist, [op |-> "WriteNote", voice |-> voice, lines |-> n.lines])
    /\ pc' = "notes"
    /\ UNCHANGED <<file, r, before, resets, song, res, back, header>>

\* w.VoiceChange()
VoiceChangeStep ==
    /\ pc \in {"song", "notes"}
    /\ Len(hist) < MaxWrites
    /\ w' = VoiceChange(w)
    /\ hist' = Append(hist, [op |-> "VoiceChange", voice |-> 0 - 1, lines |-> <<>>])
    /\ pc' = "notes"
    /\ UNCHANGED <<file, r, before, resets, song, res, out, back, header>>

NextNotes == WriteNoteStep \/ VoiceChangeStep \/ WriteSongStep

SpecNotes == InitNotes /\ [][NextNotes]_vars

\* the WriteNote calls before call i
NotesBefore(i) == {j \in 1..(i - 1) : hist[j].op = "WriteNote"}

\* the voice of the note written before call i, P1 when there is none
VoiceBefore(i) ==
    IF NotesBefore(i) = {} THEN 0
    ELSE hist[CHOOSE j \in NotesBefore(i) : \A k \in NotesBefore(i) : k <= j].voice

\* VoiceChange was called since the note written before call i
ChangedBefore(i) ==
    \E j \in 1..(i - 1) :
        /\ hist[j].op = "VoiceChange"
        /\ \A k \in NotesBefore(i) : k < j

VoiceChangeLine(voice) == <<"P">> \o Itoa(voice + 1)

IsHeaderLine(l) == l # <<>> /\ l[1] = "#"

\* C12: WriteNote writes the line `P{v+1}` right before the note line exactly
\* when v is not the voice of the note written before (P1 at first) or
\* VoiceChange was called since; WriteSong of a duet writes `P1` before the
\* first note of the first voice.
C12_VoiceChangeLines ==
    /\ \A i \in 1..Len(hist) :
         hist[i].op = "WriteNote" =>
           IF hist[i].voice # VoiceBefore(i) \/ ChangedBefore(i)
           THEN /\ Len(hist[i].lines) = 2
                /\ hist[i].lines[1] = VoiceChangeLine(hist[i].voice)
                /\ hist[i].lines[2] = noteLine(w, NoteA)
           ELSE hist[i].lines = <<noteLine(w, NoteA)>>
    /\ (pc = "written" /\ IsDuet(song) /\ song.Voices[1].Notes # <<>>) =>
         \E k \in 1..(Len(out) - 1) :
           /\ \A j \in 1..(k - 1) : IsHeaderLine(out[j])
           /\ out[k] = VoiceChangeLine(0)
           /\ out[k + 1][1] = song.Voices[1].Notes[1].Type

\* C12 witness: a note of P1 written without a voice change line, then
\* VoiceChange, a note of P1 with the line `P1`, and a note of P2 with `P2`.
C12_Witness ==
    /\ Len(hist) = 4
    /\ hist[1].op = "WriteNote" /\ hist[1].voice = 0 /\ Len(hist[1].lines) = 1
    /\ hist[2].op = "VoiceChange"
    /\ hist[3].op = "WriteNote" /\ hist[3].voice = 0 /\ Len(hist[3].lines) = 2
    /\ hist[4].op = "WriteNote" /\ hist[4].voice = 1 /\ Len(hist[4].lines) = 2
    /\ SubSeq(out, 2, 3) = <<VoiceChangeLine(0), noteLine(w, NoteA)>>

-----------------------------------------------------------------------------
(* Specification SpecHeader: a client that builds a Header with Set, Add,  *)
(* SetInt and SetFloat, reads it with Get and Has and writes it with       *)
(* WriteHeader.  hist holds the calls and what they returned.              *)

MaxHeaderCalls == 2

KeyA == <<"a">>

KeyPaddedA == <<" ", "A">>

KeyB == <<"b">>

KeyColon == <<"a", ":">>

HeaderKeys == {KeyA, KeyPaddedA, KeyB, KeyColon}

HeaderTexts == {<<>>, <<"x">>}

HeaderNumbers == {0, 7}

InitHeaders == {EmptyHeader, Add(Add(EmptyHeader, KeyA, <<"y">>), KeyA, <<"z">>)}

\* a call of the client: op(key, value) or op(key, num), with the results of
\* Get (got), Has (has) and WriteHeader (lines)
HeaderCall(op, key, value, num, got, has, lines) ==
    [op |-> op, key |-> key, value |-> value, num |-> num,
     got |-> got, has |-> has, lines |-> lines]

InitHeader ==
    /\ header \in InitHeaders
    /\ file = <<>>
    /\ r = ZeroReader
    /\ res = {}
    /\ pc = "header"
    /\ hist = <<>>
    /\ before = NothingBefore
    /\ resets = 0
    /\ song = NewSong
    /\ w = NoWriter
    /\ out = <<>>
    /\ back = NewSong

\* header.Set(key, value)
SetStep ==
    /\ pc = "header" /\ Len(hist) < MaxHeaderCalls
    /\ \E key \in HeaderKeys, value \in HeaderTexts :
         /\ header' = Set(header, key, value)
         /\ hist' = Append(hist, HeaderCall("Set", key, value, 0, <<>>, FALSE, <<>>))
    /\ UNCHANGED <<pc, file, r, before, resets, song, res, w, out, back>>

\* header.Add(key, value)
AddStep ==
    /\ pc = "header" /\ Len(hist) < MaxHeaderCalls
    /\ \E key \in HeaderKeys :
         /\ header' = Add(header, key, <<"y">>)
         /\ hist' = Append(hist, HeaderCall("Add", key, <<"y">>, 0, <<>>, FALSE, <<>>))
    /\ UNCHANGED <<pc, file, r, before, resets, song, res, w, out, back>>

\* header.SetInt(key, num)
SetIntStep ==
    /\ pc = "header" /\ Len(hist) < MaxHeaderCalls
    /\ \E key \in HeaderKeys, num \in HeaderNumbers :
         /\ header' = SetInt(header, key, num)
         /\ hist' = Append(hist, HeaderCall("SetInt", key, <<>>, num, <<>>, FALSE, <<>>))
    /\ UNCHANGED <<pc, file, r, before, resets, song, res, w, out, back>>

\* header.SetFloat(key, num)
SetFloatStep ==
    /\ pc = "header" /\ Len(hist) < MaxHeaderCalls
    /\ \E key \in HeaderKeys, num \in HeaderNumbers :
         /\ header' = SetFloat(header, key, num)
         /\ hist' = Append(hist, HeaderCall("SetFloat", key, <<>>, num, <<>>, FALSE, <<>>))
    /\ UNCHANGED <<pc, file, r, before, resets, song, res, w, out, back>>

\* header.Get(key)
GetStep ==
    /\ pc = "header" /\ Len(hist) < MaxHeaderCalls
    /\ \E key \in HeaderKeys :
         hist' = Append(hist, HeaderCall("Get", key, <<>>, 0, Get(header, key), FALSE, <<>>))
    /\ UNCHANGED <<pc, file, r, before, resets, song, res, w, out, back, header>>

\* header.Has(key)
HasStep ==
    /\ pc = "header" /\ Len(hist) < MaxHeaderCalls
    /\ \E key \in HeaderKeys :
         hist' = Append(hist, HeaderCall("Has", key, <<>>, 0, <<>>, Has(header, key), <<>>))
    /\ UNCHANGED <<pc, file, r, before, resets, song, res, w, out, back, header>>

\* w.WriteHeader(header)
WriteHeaderStep ==
    /\ pc = "header" /\ Len(hist) < MaxHeaderCalls
    /\ \E lines \in {WriteHeader(w, header)} :
         /\ out' = out \o lines
         /\ hist' = Append(hist, HeaderCall("WriteHeader", <<>>, <<>>, 0, <<>>, FALSE, lines))
    /\ UNCHANGED <<pc, file, r, before, resets, song, res, w, back, header>>

NextHeader ==
    \/ SetStep
    \/ AddStep
    \/ SetIntStep
    \/ SetFloatStep
    \/ GetStep
    \/ HasStep
    \/ WriteHeaderStep

SpecHeader == InitHeader /\ [][NextHeader]_vars

\* the keys are equal after trimming and upper-casing
SameCanonical(k1, k2) == ToUpper(TrimSpace(k1)) = ToUpper(TrimSpace(k2))

\* C13: Get(k2) right after Set(k, v) with a non-empty v returns v when k and
\* k2 are equal after trimming and upper-casing.
C13_GetAfterSet ==
    \A i \in 1..(Len(hist) - 1) :
        (/\ hist[i].op = "Set"
         /\ hist[i].value # <<>>
         /\ hist[i + 1].op = "Get"
         /\ SameCanonical(hist[i].key, hist[i + 1].key))
        => hist[i + 1].got = hist[i].value

\* C13 witness: Set(" A", "x") on a Header that holds two values for A, then
\* Get("a") returned "x".
C13_Witness ==
    /\ Len(hist) = 2
    /\ hist[1].op = "Set" /\ hist[1].key = KeyPaddedA /\ hist[1].value = <<"x">>
    /\ hist[2].op = "Get" /\ hist[2].key = KeyA /\ hist[2].got = <<"x">>
    /\ header = [k \in {<<"A">>} |-> <<<<"x">>>>]

\* the line is the header line of key
IsLineOf(line, key) ==
    /\ Len(line) >= Len(key) + 2
    /\ SubSeq(line, 1, Len(key) + 2) = <<"#">> \o CanonicalHeaderKey(key) \o <<":">>

\* C15: after SetInt(k, 0) or SetFloat(k, 0) Has(k) is false and WriteHeader
\* writes no line for k; after any other number Get(k) is the formatted number.
C15_ZeroLeavesNoValue ==
    \A i \in 1..(Len(hist) - 1) :
        hist[i].op \in {"SetInt", "SetFloat"} =>
          IF hist[i].num = 0
          THEN /\ (hist[i + 1].op = "Has" /\ SameCanonical(hist[i].key, hist[i + 1].key))
                    => ~hist[i + 1].has
               /\ hist[i + 1].op = "WriteHeader"
                    => \A j \in 1..Len(hist[i + 1].lines) :
                          ~IsLineOf(hist[i + 1].lines[j], hist[i].key)
          ELSE (hist[i + 1].op = "Get" /\ SameCanonical(hist[i].key, hist[i + 1].key))
                    => hist[i + 1].got = Itoa(hist[i].num)

\* C23: every key stored in the Header is a non-empty canonical key, and
\* WriteHeader writes no header line with an empty key.
C23_KeysNotEmpty ==
    /\ \A k \in DOMAIN header : k # <<>> /\ CanonicalHeaderKey(k) = k
    /\ \A i \in 1..Len(hist) :
         hist[i].op = "WriteHeader" =>
           \A j \in 1..Len(hist[i].lines) : hist[i].lines[j][2] # ":"

-----------------------------------------------------------------------------
(* Specification SpecMulti: a client that stores a list of values with     *)
(* SetMultiValued and reads it back with GetMultiValued.                   *)

MaxItems == 2

\* items without leading or trailing white space, some of them with commas
MultiItems == {<<"a">>, <<"c">>, <<"a", ",", "b">>, <<"a", ",">>, <<",">>}

MultiLists == SeqsUpTo(MultiItems, MaxItems)

\* header.SetMultiValued(key, values...)
SetMultiValuedStep ==
    /\ pc = "header"
    /\ \E key \in HeaderKeys, values \in MultiLists :
         /\ header' = SetMultiValued(header, key, values)
         /\ hist' = Append(hist, HeaderCall("SetMultiValued", key, <<>>, 0, <<>>, FALSE, values))
    /\ pc' = "multi"
    /\ UNCHANGED <<file, r, before, resets, song, res, w, out, back>>

\* slices.Collect(header.GetMultiValued(key))
GetMultiValuedStep ==
    /\ pc = "multi"
    /\ \E key \in HeaderKeys :
         \E n \in {GetMultiValued(header, key)} :
           /\ hist' = Append(hist, HeaderCall("GetMultiValued", key, <<>>, 0, <<>>, FALSE, n.items))
           /\ pc' = IF n.panic THEN "panic" ELSE "got"
    /\ UNCHANGED <<file, r, before, resets, song, res, w, out, back, header>>

NextMulti == SetMultiValuedStep \/ GetMultiValuedStep

SpecMulti == InitHeader /\ [][NextMulti]_vars

\* C14: GetMultiValued(k2) after SetMultiValued(k, L...) returns the items of L
\* in order and unchanged, for keys k and k2 with the same canonical form.
C14_MultiValuedRoundTrip ==
    (/\ Len(hist) = 2
     /\ hist[2].op = "GetMultiValued"
     /\ SameCanonical(hist[1].key, hist[2].key))
    => /\ pc = "got"
       /\ hist[2].lines = hist[1].lines

-----------------------------------------------------------------------------
(* Specification SpecUnique: a client that holds a Header with some values *)
(* for a key and asks for the unique value with GetUnique, UniqueHeader or *)
(* UniqueHeaderAs with strconv.Atoi.                                       *)

MaxValues == 3

UniqueValues == {<<>>, <<"7">>, <<"0", "7">>, <<"y">>}

\* the conv of GetUnique and UniqueHeader
convString(v) == [val |-> v, err |-> "nil"]

\* UniqueHeader(h, key, required)
UniqueHeader(h, key, required) ==
    uniqueHeaderAs(Values(h, key), required,
                   [i \in 1..Len(Values(h, key)) |-> convString(Values(h, key)[i])], <<>>)

\* h.GetUnique(key)
GetUnique(h, key) ==
    uniqueHeaderAs(Values(h, key), FALSE,
                   [i \in 1..Len(Values(h, key)) |-> convString(Values(h, key)[i])], <<>>)

\* UniqueHeaderAs(h, key, required, strconv.Atoi)
UniqueHeaderAsInt(h, key, required) ==
    uniqueHeaderAs(Values(h, key), required,
                   [i \in 1..Len(Values(h, key)) |-> convAtoi(Values(h, key)[i])], 0)

InitUnique ==
    /\ header \in {EmptyHeader} \cup
                  {[k \in {CanonicalHeaderKey(KeyA)} |-> vs] :
                      vs \in SeqsUpTo(UniqueValues, MaxValues)}
    /\ file = <<>>
    /\ r = ZeroReader
    /\ res = {}
    /\ pc = "header"
    /\ hist = <<>>
    /\ before = NothingBefore
    /\ resets = 0
    /\ song = NewSong
    /\ w = NoWriter
    /\ out = <<>>
    /\ back = NewSong

UniqueCall(op, key, required, conv, n) ==
    [op |-> op, key |-> key, required |-> required, conv |-> conv,
     val |-> n.val, err |-> n.err]

\* header.GetUnique(key)
GetUniqueStep ==
    /\ pc = "header"
    /\ \E key \in {KeyA, KeyPaddedA, KeyB} :
         hist' = Append(hist, UniqueCall("GetUnique", key, FALSE, "string",
                                         GetUnique(header, key)))
    /\ pc' = "unique"
    /\ UNCHANGED <<file, r, before, resets, song, res, w, out, back, header>>

\* UniqueHeader(header, key, required)
UniqueHeaderStep ==
    /\ pc = "header"
    /\ \E key \in {KeyA, KeyPaddedA, KeyB}, required \in BOOLEAN :
         hist' = Append(hist, UniqueCall("UniqueHeader", key, required, "string",
                                         UniqueHeader(header, key, required)))
    /\ pc' = "unique"
    /\ UNCHANGED <<file, r, before, resets, song, res, w, out, back, header>>

\* UniqueHeaderAs(header, key, required, strconv.Atoi)
UniqueHeaderAsStep ==
    /\ pc = "header"
    /\ \E key \in {KeyA, KeyPaddedA, KeyB}, required \in BOOLEAN :
         hist' = Append(hist, UniqueCall("UniqueHeaderAs", key, required, "Atoi",
                                         UniqueHeaderAsInt(header, key, required)))
    /\ pc' = "unique"
    /\ UNCHANGED <<file, r, before, resets, song, res, w, out, back, header>>

NextUnique == GetUniqueStep \/ UniqueHeaderStep \/ UniqueHeaderAsStep

SpecUnique == InitUnique /\ [][NextUnique]_vars

\* the conv of a call applied to one value
ConvOf(c, v) == IF c.conv = "Atoi" THEN convAtoi(v) ELSE convString(v)

\* the non-empty values a call found under its key
NonEmptyOf(c) == SelectSeq(Values(header, c.key), NonEmptyValue)

\* conv fails on none of the values of the call
AllConvert(c) == \A i \in 1..Len(NonEmptyOf(c)) : ConvOf(c, NonEmptyOf(c)[i]).err = "nil"

\* the values of the call convert to one common result
OneResult(c) ==
    \A i, j \in 1..Len(NonEmptyOf(c)) :
        ConvOf(c, NonEmptyOf(c)[i]).val = ConvOf(c, NonEmptyOf(c)[j]).val

\* C16: a call returns the common result of conv on the non-empty values when
\* all results are equal, ErrMultipleValues when two results differ,
\* ErrNoValue exactly when required is set and no value is non-empty, and the
\* zero value with a nil error when required is unset and no value is non-empty.
C16_UniqueValue ==
    \A i \in 1..Len(hist) :
        /\ hist[i].err = "ErrNoValue" <=> (hist[i].required /\ NonEmptyOf(hist[i]) = <<>>)
        /\ (~hist[i].required /\ NonEmptyOf(hist[i]) = <<>>)
             => /\ hist[i].err = "nil"
                /\ hist[i].val = IF hist[i].conv = "Atoi" THEN 0 ELSE <<>>
        /\ (NonEmptyOf(hist[i]) # <<>> /\ AllConvert(hist[i]))
             => IF OneResult(hist[i])
                THEN /\ hist[i].err = "nil"
                     /\ hist[i].val = ConvOf(hist[i], NonEmptyOf(hist[i])[1]).val
                ELSE hist[i].err = "ErrMultipleValues"

\* C16 witness: the values "7", "" and "07" gave UniqueHeaderAs with Atoi the
\* common result 7.
C16_Witness ==
    /\ Len(hist) = 1
    /\ header = [k \in {<<"A">>} |-> <<<<"7">>, <<>>, <<"0", "7">>>>]
    /\ hist[1].op = "UniqueHeaderAs" /\ hist[1].required /\ hist[1].key = KeyPaddedA
    /\ hist[1].val = 7 /\ hist[1].err = "nil"

-----------------------------------------------------------------------------
(* Specification SpecErrors: a client that reads files with invalid header *)
(* values with NewReader and ReadSong and matches each HeaderError of the  *)
(* returned error against target HeaderErrors with errors.Is and           *)
(* errors.As.                                                              *)

MaxMatches == 2

ErrorHeaders ==
    {<<LineBPM>>, <<LineVersionX, LineBPM>>, <<LineBPM, LineYearX>>,
     <<LineBPM, LineRelative, LineRelativeNo>>,
     <<LineEncodingX, LineRelative, LineRelativeNo, LineBPM>>}

ErrorFiles == {h \o <<LineNote>> : h \in ErrorHeaders}

TargetKeys == {<<>>, HeaderRelative, HeaderYear, <<"y", "e", "a", "r">>}

\* the targets &HeaderError{Key: T}, and one with an underlying error
Targets ==
    {HeaderError(T, "nil") : T \in TargetKeys}
        \cup {HeaderError(HeaderRelative, "ErrMultipleValues")}

InitErrors ==
    /\ file \in ErrorFiles
    /\ r = NewReader(file).r
    /\ res = NewReader(file).err
    /\ pc = "new"
    /\ hist = <<>>
    /\ before = NothingBefore
    /\ resets = 0
    /\ song = NewSong
    /\ w = NoWriter
    /\ out = <<>>
    /\ back = NewSong
    /\ header = EmptyHeader

\* the HeaderErrors joined in the error the client holds
HeaderErrors == {e \in res : "Key" \in DOMAIN e}

\* errors.Is(e, &HeaderError{Key: T, Err: ...})
IsStep ==
    /\ Len(hist) < MaxMatches
    /\ \E e \in HeaderErrors, hErr \in Targets :
         hist' = Append(hist, [op |-> "Is", e |-> e, target |-> <<hErr>>,
                               ok |-> errorsIs(e, hErr), after |-> <<hErr>>])
    /\ UNCHANGED <<pc, file, r, before, resets, song, res, w, out, back, header>>

\* var target = &HeaderError{Key: T} (or nil); errors.As(e, &target)
AsStep ==
    /\ Len(hist) < MaxMatches
    /\ \E e \in HeaderErrors, hErrPtr \in {<<>>} \cup {<<t>> : t \in Targets} :
         \E n \in {errorsAs(e, hErrPtr)} :
           hist' = Append(hist, [op |-> "As", e |-> e, target |-> hErrPtr,
                                 ok |-> n.ok, after |-> n.target])
    /\ UNCHANGED <<pc, file, r, before, resets, song, res, w, out, back, header>>

NextErrors == ParseSongStep \/ IsStep \/ AsStep

SpecErrors == InitErrors /\ [][NextErrors]_vars

\* the target key T of a call is empty or the key of the error matched
KeyMatches(c) == c.target[1].Key = <<>> \/ c.target[1].Key = c.e.Key

-----------------------------------------------------------------------------
(* Specification SpecVoice: a client that fills the one Voice of its Song  *)
(* with AddNote and AppendNotes and sorts it with SortNotes.               *)

MaxVoiceCalls == 3

\* a note that starts with NoteA
NoteC == [NoteA EXCEPT !.Text = <<"c">>]

AddedNotes == {NoteA, NoteC, NoteBreak, NoteB}

InitVoice ==
    /\ song = [NewSong EXCEPT !.Voices = <<NewVoice(<<>>)>>]
    /\ file = <<>>
    /\ r = ZeroReader
    /\ res = {}
    /\ pc = "voice"
    /\ hist = <<>>
    /\ before = NothingBefore
    /\ resets = 0
    /\ w = NoWriter
    /\ out = <<>>
    /\ back = NewSong
    /\ header = EmptyHeader

\* a call on the voice: the notes before and after it
VoiceCall(op, n, v, v2) == [op |-> op, n |-> n, before |-> v.Notes, after |-> v2.Notes]

\* song.Voices[0].AddNote(n)
AddNoteStep ==
    /\ pc = "voice" /\ Len(hist) < MaxVoiceCalls
    /\ \E n \in AddedNotes :
         /\ song' = [song EXCEPT !.Voices[1] = AddNote(@, n)]
         /\ hist' = Append(hist, VoiceCall("AddNote", n, song.Voices[1], song'.Voices[1]))
    /\ UNCHANGED <<pc, file, r, before, resets, res, w, out, back, header>>

\* song.Voices[0].AppendNotes(n)
AppendNotesStep ==
    /\ pc = "voice" /\ Len(hist) < MaxVoiceCalls
    /\ \E n \in AddedNotes :
         /\ song' = [song EXCEPT !.Voices[1] = AppendNotes(@, n)]
         /\ hist' = Append(hist, VoiceCall("AppendNotes", n, song.Voices[1], song'.Voices[1]))
    /\ UNCHANGED <<pc, file, r, before, resets, res, w, out, back, header>>

\* song.Voices[0].SortNotes()
SortNotesStep ==
    /\ pc = "voice" /\ Len(hist) < MaxVoiceCalls
    /\ song' = [song EXCEPT !.Voices[1] = SortNotes(@)]
    /\ hist' = Append(hist, VoiceCall("SortNotes", ZeroNote, song.Voices[1], song'.Voices[1]))
    /\ UNCHANGED <<pc, file, r, before, resets, res, w, out, back, header>>

NextVoice == AddNoteStep \/ AppendNotesStep \/ SortNotesStep

SpecVoice == InitVoice /\ [][NextVoice]_vars

\* the notes are in non-decreasing order of Start
IsSortedByStart(ns) == \A i, j \in 1..Len(ns) : i < j => ns[i].Start <= ns[j].Start

\* b is a with n put in at one place
IsWithNote(b, a, n) ==
    \E k \in 0..Len(a) : b = SubSeq(a, 1, k) \o <<n>> \o SubSeq(a, k + 1, Len(a))

\* C18: AddNote(n) on notes sorted by Start leaves them sorted and holding the
\* notes of before plus n, and SortNotes right after it changes nothing.
C18_AddNoteKeepsSorted ==
    \A i \in 1..Len(hist) :
        (hist[i].op = "AddNote" /\ IsSortedByStart(hist[i].before)) =>
          /\ IsSortedByStart(hist[i].after)
          /\ IsWithNote(hist[i].after, hist[i].before, hist[i].n)
          /\ (i < Len(hist) /\ hist[i + 1].op = "SortNotes")
               => hist[i + 1].after = hist[i].after

\* C18 witness: NoteB added, then NoteA added in front of it, then SortNotes.
C18_Witness ==
    /\ Len(hist) = 3
    /\ hist[1].op = "AddNote" /\ hist[1].n = NoteB
    /\ hist[2].op = "AddNote" /\ hist[2].n = NoteA /\ hist[2].after = <<NoteA, NoteB>>
    /\ hist[3].op = "SortNotes"
    /\ song.Voices[1].Notes = <<NoteA, NoteB>>

\* the number of notes that start on the beat of n or before it
NotAfter(a, n) == Cardinality({k \in 1..Len(a) : a[k].Start <= n.Start})

\* C28: AddNote(n) on notes sorted by Start puts n behind every note that
\* starts on the same beat, so notes of equal Start stay in the order in
\* which they were added.
C28_AddNoteAfterEqualStart ==
    \A i \in 1..Len(hist) :
        (hist[i].op = "AddNote" /\ IsSortedByStart(hist[i].before)) =>
            hist[i].after = SubSeq(hist[i].before, 1, NotAfter(hist[i].before, hist[i].n))
                            \o <<hist[i].n>>
                            \o SubSeq(hist[i].before, NotAfter(hist[i].before, hist[i].n) + 1,
                                      Len(hist[i].before))

-----------------------------------------------------------------------------
(* Specification SpecBlock: a client that binds a Reader with NewReader to *)
(* files whose header lines, blank lines and body lines come in any order  *)
(* and reads them note by note.                                            *)

MaxBlock == 3

BlockLines ==
    {LineBPM, LineTitle, LineHash, LineNoColon, LineEmpty, LineBlank, LineNote, LineP2}

BlockFiles == SeqsUpTo(BlockLines, MaxBlock)

InitBlock ==
    /\ file \in BlockFiles
    /\ r = NewReader(file).r
    /\ res = NewReader(file).err
    /\ pc = "new"
    /\ hist = <<>>
    /\ before = NothingBefore
    /\ resets = 0
    /\ song = NewSong
    /\ w = NoWriter
    /\ out = <<>>
    /\ back = NewSong
    /\ header = EmptyHeader

NextBlock == ReadNoteStep

SpecBlock == InitBlock /\ [][NextBlock]_vars

\* the line is not blank and does not start with #
IsBodyLine(l) == ~IsBlank(l) /\ TrimSpace(l)[1] # "#"

\* the first line of f that is a body line, Len(f) + 1 when there is none
FirstBodyLine(f) ==
    IF \E i \in 1..Len(f) : IsBodyLine(f[i])
    THEN CHOOSE i \in 1..Len(f) : IsBodyLine(f[i]) /\ \A j \in 1..(i - 1) : ~IsBodyLine(f[j])
    ELSE Len(f) + 1

\* C21: the header loop stops right before the first line that is neither
\* blank nor starts with #, which is pushed back; the ReadNote calls then go
\* through the lines from that one on in order, each call stopping at a later
\* line than the call before and passing over blank lines and voice changes
\* only.
C21_HeaderBlockConsumed ==
    /\ hist = <<>> =>
         IF FirstBodyLine(file) <= Len(file)
         THEN /\ r.line = FirstBodyLine(file) - 1
              /\ r.rescan
              /\ r.tok = file[FirstBodyLine(file)]
         ELSE ~r.rescan
    /\ \A i \in 1..Len(hist) :
         hist[i].err.kind \in {"nil", "syntax"} =>
           /\ hist[i].line > (IF i = 1 THEN FirstBodyLine(file) - 1 ELSE hist[i - 1].line)
           /\ \A k \in (IF i = 1 THEN FirstBodyLine(file) ELSE hist[i - 1].line + 1)
                          ..(hist[i].line - 1) :
                IsBlank(file[k]) \/ VoiceChangeOf(file[k]) >= 0
           /\ hist[i].err = NilErr =>
                /\ file[hist[i].line] # <<>>
                /\ hist[i].note.Type = file[hist[i].line][1]

\* C21 witness: after the header lines `#TITLE:a` and a blank line the first
\* ReadNote call returned the note of line 3.
C21_Witness ==
    /\ file = <<LineTitle, LineBlank, LineNote>>
    /\ Len(hist) = 1
    /\ hist[1].err = NilErr
    /\ hist[1].line = 3
    /\ hist[1].note.Text = <<"a">>

\* the line is a header line `#KEY` without a colon
IsKeyOnlyLine(l) ==
    /\ Len(TrimSpace(l)) > 1
    /\ TrimSpace(l)[1] = "#"
    /\ IndexByte(TrimSpace(l), ":") = 0

\* the canonical key a header line names: the text between # and the colon,
\* or all the text after # when there is no colon
KeyOfLine(l) ==
    IF IndexByte(TrimSpace(l), ":") = 0
    THEN CanonicalHeaderKey(Tail(TrimSpace(l)))
    ELSE CanonicalHeaderKey(SubSeq(TrimSpace(l), 2, IndexByte(TrimSpace(l), ":") - 1))

\* the lines of the header block of f that name a key
KeyLines(f) ==
    {i \in 1..(FirstBodyLine(f) - 1) : Len(TrimSpace(f[i])) > 1 /\ TrimSpace(f[i])[1] = "#"}

\* C22: for a header line `#KEY` without a colon the Header of the Reader has
\* an entry under the canonical key KEY with no non-empty value, and no entry
\* under a key that no header line names.
C22_KeyWithoutColon ==
    /\ \A i \in KeyLines(file) :
         IsKeyOnlyLine(file[i]) =>
           /\ KeyOfLine(file[i]) \in DOMAIN r.Header
           /\ ~Has(r.Header, KeyOfLine(file[i]))
    /\ DOMAIN r.Header \subseteq {KeyOfLine(file[i]) : i \in KeyLines(file)}

-----------------------------------------------------------------------------
(* Specification SpecRel: a client that sets its Writer to relative mode   *)
(* and writes notes and ends of phrases for two voices with WriteNote.     *)

\* a later end of phrase
NoteBreak5 == [NoteBreak EXCEPT !.Start = 5]

RelNotes == {NoteA, NoteBreak, NoteB, NoteBreak5}

InitRel ==
    /\ w = [NewWriter(ZeroVersion) EXCEPT !.Relative = TRUE]
    /\ song = NewSong
    /\ file = <<>>
    /\ r = ZeroReader
    /\ res = {}
    /\ pc = "notes"
    /\ hist = <<>>
    /\ before = NothingBefore
    /\ resets = 0
    /\ out = <<>>
    /\ back = NewSong
    /\ header = EmptyHeader

\* w.WriteNote(n, voice) in relative mode; rel is w.rel before and after
WriteRelNoteStep ==
    /\ pc = "notes"
    /\ Len(hist) < MaxWrites
    /\ \E n \in RelNotes, voice \in {0, 1} :
         \E c \in {WriteNote(w, n, voice)} :
           /\ w' = c.w
           /\ out' = out \o c.lines
           /\ hist' = Append(hist, [n |-> n, voice |-> voice, lines |-> c.lines,
                                    rel |-> w.rel, after |-> c.w.rel])
    /\ UNCHANGED <<pc, file, r, before, resets, song, res, back, header>>

NextRel == WriteRelNoteStep

SpecRel == InitRel /\ [][NextRel]_vars

\* the start a call printed: n.Start minus the counter of its voice
PrintedStart(c) == c.n.Start - c.rel[c.voice + 1]

\* the note line of a call in relative mode
RelativeLine(c) ==
    IF c.n.Type = NoteTypeEndOfPhrase
    THEN <<"-", " ">> \o Itoa(PrintedStart(c)) \o <<" ">> \o Itoa(PrintedStart(c))
    ELSE <<c.n.Type, " ">> \o Itoa(PrintedStart(c)) \o <<" ">> \o Itoa(c.n.Duration)
         \o <<" ">> \o Itoa(c.n.Pitch) \o <<" ">> \o c.n.Text

\* the call wrote its note line with the start taken relative, and left the
\* counters of the other voices alone
WroteRelative(c) ==
    /\ c.lines # <<>>
    /\ c.lines[Len(c.lines)] = RelativeLine(c)
    /\ \A v \in 1..9 : v # c.voice + 1 => c.after[v] = c.rel[v]

\* C24 as stated: an end of phrase adds the Start of the note as it was given
\* to the relative counter of its voice.
C24_AddsOriginalStart ==
    \A i \in 1..Len(hist) :
        /\ WroteRelative(hist[i])
        /\ hist[i].after[hist[i].voice + 1] =
             IF hist[i].n.Type = NoteTypeEndOfPhrase
             THEN hist[i].rel[hist[i].voice + 1] + hist[i].n.Start
             ELSE hist[i].rel[hist[i].voice + 1]

\* C24: in relative mode WriteNote prints the Start minus the counter of the
\* voice; an end of phrase is written as `- start start` with that printed
\* start, which is added to the counter of the voice, so the counter becomes
\* the Start the note was given with; the other counters do not change.
C24_AddsPrintedStart ==
    \A i \in 1..Len(hist) :
        /\ WroteRelative(hist[i])
        /\ hist[i].after[hist[i].voice + 1] =
             IF hist[i].n.Type = NoteTypeEndOfPhrase
             THEN hist[i].rel[hist[i].voice + 1] + PrintedStart(hist[i])
             ELSE hist[i].rel[hist[i].voice + 1]
        /\ hist[i].n.Type = NoteTypeEndOfPhrase
             => hist[i].after[hist[i].voice + 1] = hist[i].n.Start

\* C24 witness: two ends of phrase of P1 at the beats 2 and 5, written as
\* `- 2 2` and `- 3 3`, a note of P2 in between written with its own Start,
\* and a note of P1 after them.
C24_Witness ==
    /\ Len(hist) = 4
    /\ hist[1].n = NoteBreak /\ hist[1].voice = 0
    /\ hist[2].n = NoteB /\ hist[2].voice = 1 /\ PrintedStart(hist[2]) = 3
    /\ hist[3].n = NoteBreak5 /\ hist[3].voice = 0
    /\ hist[3].lines = <<<<"P", "1">>, <<"-", " ", "3", " ", "3">>>>
    /\ hist[4].n = NoteB /\ hist[4].voice = 0 /\ PrintedStart(hist[4]) = 0 - 2
    /\ w.rel[1] = 5 /\ w.rel[2] = 0

-----------------------------------------------------------------------------
(* Specification SpecMedley: a client that makes a Reader for a header     *)
(* block with #BPM, #GAP and the medley beats in any order and calls       *)
(* Reader.Song, the map of headers yielding its keys in any order.         *)

MaxMedley == 3

LineGap == <<"#", "G", "A", "P", ":", "7">>

LineMedleyStart == <<"#">> \o HeaderMedleyStartBeat \o <<":", "6">>

LineMedleyEnd == <<"#">> \o HeaderMedleyEndBeat \o <<":", "1", "2">>

LineMedleyX == <<"#">> \o HeaderMedleyStartBeat \o <<":", "x">>

MedleyLines ==
    {LineBPM, LineGap, LineMedleyStart, LineMedleyEnd, LineMedleyX, LineVersion1}

HasLine(f, l) == \E i \in 1..Len(f) : f[i] = l

\* the header blocks with a #BPM line
MedleyFiles == {f \in SeqsUpTo(MedleyLines, MaxMedley) : HasLine(f, LineBPM)}

\* the orders in which a range over h can yield its keys
KeyOrders(h) ==
    {o \in [1..Cardinality(DOMAIN h) -> DOMAIN h] :
        \A i, j \in 1..Cardinality(DOMAIN h) : i # j => o[i] # o[j]}

InitMedley ==
    /\ file \in MedleyFiles
    /\ r = NewReader(file).r
    /\ res = NewReader(file).err
    /\ pc = "new"
    /\ hist = <<>>
    /\ before = NothingBefore
    /\ resets = 0
    /\ song = NewSong
    /\ w = NoWriter
    /\ out = <<>>
    /\ back = NewSong
    /\ header = EmptyHeader

\* song, err := r.Song(); hist records the order of the range loop
SongStep ==
    /\ pc = "new"
    /\ res = {}
    /\ \E order \in KeyOrders(r.Header) :
         /\ song' = SongIn(r, order).song
         /\ res' = SongIn(r, order).err
         /\ hist' = <<order>>
    /\ pc' = "song"
    /\ UNCHANGED <<file, r, before, resets, w, out, back, header>>

NextMedley == SongStep

SpecMedley == InitMedley /\ [][NextMedley]_vars

\* the number a header line gives after its colon
LineValue(l) == Atoi(SubSeq(l, IndexByte(l, ":") + 1, Len(l))).val

\* the Gap of the file in milliseconds and its BPM (four times the header)
FileGap(f) == IF HasLine(f, LineGap) THEN LineValue(LineGap) ELSE 0

FileBPM(f) == 4 * LineValue(LineBPM)

\* Gap + BPM.Duration(beat) in milliseconds for the beat of line l, when the
\* file has the line and not the line x, a value of the same header that is
\* no number
MedleyOf(f, l, x) ==
    IF HasLine(f, l) /\ ~HasLine(f, x)
    THEN FileGap(f) + (LineValue(l) * 60000) \div FileBPM(f)
    ELSE 0

\* C25: for a version below 2, Song.MedleyStart and Song.MedleyEnd are the
\* Gap plus BPM.Duration(beat) of the BPM and GAP values of the file, in
\* whatever order the header lines stand in the file and the range loop of
\* Reader.Song yields the keys.
C25_MedleyFromBpmAndGap ==
    pc = "song" =>
        /\ r.Version.Major < 2
        /\ song.BPM = FileBPM(file)
        /\ song.Gap = FileGap(file)
        /\ song.MedleyStart = MedleyOf(file, LineMedleyStart, LineMedleyX)
        /\ song.MedleyEnd = MedleyOf(file, LineMedleyEnd, <<>>)

\* C25 witness: the medley start stands before #GAP and #BPM in the file and
\* the range loop yields BPM and GAP last; the medley starts at 30007 ms.
C25_Witness ==
    /\ pc = "song"
    /\ file = <<LineMedleyStart, LineGap, LineBPM>>
    /\ hist = <<<<HeaderMedleyStartBeat, HeaderBPM, HeaderGap>>>>
    /\ song.MedleyStart = 30007
    /\ res = {}

-----------------------------------------------------------------------------
(* Specification SpecSpaces: a client that calls ConvertToLeadingSpaces or *)
(* ConvertToTrailingSpaces on a Voice whose notes are sorted.              *)

MaxSpaceNotes == 3

\* the type and text of a syllable, of one followed and of one preceded by a
\* space, and of an end of phrase
SpaceKinds ==
    {<<":", <<"a">>>>, <<":", <<"a", " ">>>>,
     <<":", <<" ", "a">>>>, <<NoteTypeEndOfPhrase, <<"\n">>>>}

\* the notes of the given kinds on the beats 1, 2, ...
SpaceNotes(kinds) ==
    [i \in 1..Len(kinds) |->
        [ZeroNote EXCEPT !.Type = kinds[i][1], !.Start = i, !.Duration = 1,
                         !.Text = kinds[i][2]]]

SpaceVoices == {SpaceNotes(k) : k \in SeqsUpTo(SpaceKinds, MaxSpaceNotes)}

InitSpaces ==
    /\ \E ns \in SpaceVoices : song = [NewSong EXCEPT !.Voices = <<[NewVoice(<<>>) EXCEPT !.Notes = ns]>>]
    /\ file = <<>>
    /\ r = ZeroReader
    /\ res = {}
    /\ pc = "voice"
    /\ hist = <<>>
    /\ before = NothingBefore
    /\ resets = 0
    /\ w = NoWriter
    /\ out = <<>>
    /\ back = NewSong
    /\ header = EmptyHeader

\* one call of a conversion: the notes before it and how it ended
SpacesCall(op, v, c) == [op |-> op, before |-> v.Notes, outcome |-> c.outcome]

\* song.Voices[0].ConvertToLeadingSpaces()
ConvertToLeadingSpacesStep ==
    /\ pc = "voice"
    /\ \E c \in {ConvertToLeadingSpaces(song.Voices[1])} :
         /\ song' = [song EXCEPT !.Voices[1].Notes = c.notes]
         /\ pc' = c.outcome
         /\ hist' = <<SpacesCall("Leading", song.Voices[1], c)>>
    /\ UNCHANGED <<file, r, before, resets, res, w, out, back, header>>

\* song.Voices[0].ConvertToTrailingSpaces()
ConvertToTrailingSpacesStep ==
    /\ pc = "voice"
    /\ \E c \in {ConvertToTrailingSpaces(song.Voices[1])} :
         /\ song' = [song EXCEPT !.Voices[1].Notes = c.notes]
         /\ pc' = c.outcome
         /\ hist' = <<SpacesCall("Trailing", song.Voices[1], c)>>
    /\ UNCHANGED <<file, r, before, resets, res, w, out, back, header>>

NextSpaces == ConvertToLeadingSpacesStep \/ ConvertToTrailingSpacesStep

SpecSpaces == InitSpaces /\ [][NextSpaces]_vars

\* the notes differ in their texts at most
SameButTexts(ns, ms) ==
    /\ Len(ns) = Len(ms)
    /\ \A i \in 1..Len(ns) : [ns[i] EXCEPT !.Text = <<>>] = [ms[i] EXCEPT !.Text = <<>>]

\* the text without the spaces at its end
RECURSIVE TrimRightSpaces(_)
TrimRightSpaces(s) ==
    IF HasSuffixSpace(s) THEN TrimRightSpaces(SubSeq(s, 1, Len(s) - 1)) ELSE s

\* the spaces note i hands to note i + 1: those at the end of its text, with
\* those handed to it when its own text is nothing but spaces
RECURSIVE SpacesHanded(_, _)
SpacesHanded(ns, i) ==
    IF i = 0 \/ i >= Len(ns) THEN 0
    ELSE (Len(ns[i].Text) - Len(TrimRightSpaces(ns[i].Text)))
         + (IF TrimRightSpaces(ns[i].Text) = <<>> /\ ns[i].Type # NoteTypeEndOfPhrase
            THEN SpacesHanded(ns, i - 1) ELSE 0)

\* the text of note i once the spaces are moved forward
LeadingText(ns, i) ==
    (IF ns[i].Type # NoteTypeEndOfPhrase
     THEN [k \in 1..SpacesHanded(ns, i - 1) |-> " "] ELSE <<>>)
    \o (IF i < Len(ns) THEN TrimRightSpaces(ns[i].Text) ELSE ns[i].Text)

\* C26: ConvertToLeadingSpaces returns; every space at the end of the text
\* of a note but the last is stripped and put in front of the text of the
\* next note unless that is an end of phrase; no text of a note but the last
\* ends in a space afterwards, and nothing but the texts changes.
C26_SpacesMovedForward ==
    \A i \in 1..Len(hist) :
        (hist[i].op = "Leading" /\ hist[i].before # <<>>) =>
            /\ hist[i].outcome = "done"
            /\ SameButTexts(hist[i].before, song.Voices[1].Notes)
            /\ \A k \in 1..Len(hist[i].before) :
                   /\ song.Voices[1].Notes[k].Text = LeadingText(hist[i].before, k)
                   /\ k < Len(hist[i].before)
                        => ~HasSuffixSpace(song.Voices[1].Notes[k].Text)

\* C27: ConvertToLeadingSpaces and ConvertToTrailingSpaces return without a
\* panic for every Voice, with or without notes and with or without spaces
\* at the end (the start) of a text.
C27_ConvertReturns ==
    \A i \in 1..Len(hist) : hist[i].outcome = "done"

-----------------------------------------------------------------------------
(* The Reader of the package txt (src/txt/reader.go), the dialect reader.  *)
(* Its errors are nil (NilErr), a ParseError{line, err} or a run-time      *)
(* panic; the errors it wraps are named by their variables.                *)

ParseError(line, err) == [kind |-> "ParseError", line |-> line, msg |-> err]

\* &ultrastar.Song{} with the fields the model reads
TxtSong == [BPM |-> 0, Title |-> <<>>, CustomTags |-> <<>>, NotesP1 |-> <<>>, NotesP2 |-> <<>>]

\* txt.NewReader(rd) and r.EndTagRequired = required: src are the lines of
\* rd, pos the number of them the bufio.Scanner has delivered; panic is set
\* once a call has panicked
TxtNewReader(src, required) ==
    [AllowBOM |-> TRUE, ApplyEncoding |-> TRUE, IgnoreEmptyLines |-> TRUE,
     IgnoreLeadingSpaces |-> FALSE, AllowRelative |-> TRUE, StrictLineBreaks |-> TRUE,
     EndTagRequired |-> required, StrictEndTag |-> TRUE, IgnoreBPMChanges |-> FALSE,
     Relative |-> FALSE, Encoding |-> <<>>,
     src |-> src, pos |-> 0, rescan |-> FALSE, line |-> <<>>, lineNo |-> 0,
     err |-> "nil", panic |-> FALSE]

txtScanNoCount(rd) ==
    IF rd.rescan THEN [r |-> [rd EXCEPT !.rescan = FALSE], ok |-> TRUE]
    ELSE IF \E k \in (rd.pos + 1)..Len(rd.src) : TrimSpace(rd.src[k]) # <<>>
    THEN [r |-> [rd EXCEPT
                   !.pos = CHOOSE k \in (rd.pos + 1)..Len(rd.src) :
                              /\ TrimSpace(rd.src[k]) # <<>>
                              /\ \A j \in (rd.pos + 1)..(k - 1) : TrimSpace(rd.src[j]) = <<>>,
                   !.line = rd.src[CHOOSE k \in (rd.pos + 1)..Len(rd.src) :
                              /\ TrimSpace(rd.src[k]) # <<>>
                              /\ \A j \in (rd.pos + 1)..(k - 1) : TrimSpace(rd.src[j]) = <<>>],
                   !.lineNo = @ + 1],
          ok |-> TRUE]
    ELSE [r |-> [rd EXCEPT !.pos = Len(rd.src), !.line = <<>>, !.lineNo = @ + 1],
          ok |-> FALSE]

\* Reader.scan of package txt, the Reader after it and the result: with
\* r.rescan set the flag is cleared; otherwise r.s.Scan() and r.lineNo++, again
\* while IgnoreEmptyLines is set and the line is blank (r.rescan is not set
\* then), and r.line = r.s.Text(), which is empty once Scan has returned false
RECURSIVE txtScan(_)
txtScan(rd) ==
    IF rd.rescan THEN [r |-> [rd EXCEPT !.rescan = FALSE], ok |-> TRUE]
    ELSE IF rd.pos >= Len(rd.src)
    THEN [r |-> [rd EXCEPT !.lineNo = @ + 1, !.line = <<>>], ok |-> FALSE]
    ELSE IF rd.IgnoreEmptyLines /\ TrimSpace(rd.src[rd.pos + 1]) = <<>>
    THEN txtScan([rd EXCEPT !.pos = @ + 1, !.lineNo = @ + 1])
    ELSE [r |-> [rd EXCEPT !.pos = @ + 1, !.lineNo = @ + 1,
                           !.line = IF rd.IgnoreLeadingSpaces
                                    THEN TrimLeft(rd.src[rd.pos + 1])
                                    ELSE rd.src[rd.pos + 1]],
          ok |-> TRUE]

\* Reader.unscan of package txt
txtUnscan(rd) ==
    IF rd.lineNo = 0 \/ rd.rescan THEN [rd EXCEPT !.panic = TRUE]
    ELSE [rd EXCEPT !.rescan = TRUE]

\* Reader.skipEmptyLines: the test of r.rescan, then the loop over r.scan()
\* (inside the loop r.rescan is not set, so the test is false there)
RECURSIVE skipEmptyLines(_)
skipEmptyLines(rd) ==
    IF rd.rescan /\ TrimSpace(rd.line) # <<>> THEN [r |-> rd, err |-> "nil"]
    ELSE LET s == txtScan(rd)
         IN  IF ~s.ok THEN [r |-> s.r, err |-> s.r.err]
             ELSE IF TrimSpace(s.r.line) # <<>> THEN [r |-> txtUnscan(s.r), err |-> "nil"]
             ELSE skipEmptyLines(s.r)

\* splitTag(line): the tag and the value
splitTag(line) ==
    IF IndexByte(line, ":") = 0
    THEN [tag |-> ToUpper(TrimSpace(Tail(line))), value |-> <<>>]
    ELSE [tag |-> ToUpper(TrimSpace(SubSeq(line, 2, IndexByte(line, ":") - 1))),
          value |-> TrimSpace(SubSeq(line, IndexByte(line, ":") + 1, Len(line)))]

\* setTag for #BPM, #TITLE and the custom tags, with whole numbers
setTag(s, tag, value) ==
    IF tag = HeaderBPM
    THEN IF parseFloat(value).err # "nil" THEN [s |-> s, err |-> parseFloat(value).err]
         ELSE [s |-> [s EXCEPT !.BPM = parseFloat(value).val * 4], err |-> "nil"]
    ELSE IF tag = HeaderTitle
    THEN [s |-> [s EXCEPT !.Title = value], err |-> "nil"]
    ELSE [s |-> [s EXCEPT !.CustomTags = HPut(@, tag, value)], err |-> "nil"]

\* Reader.ReadTags, sng being the Song it has filled so far
RECURSIVE ReadTags(_, _)
ReadTags(rd, sng) ==
    LET s == txtScan(rd)
        t == splitTag(s.r.line)
        u == setTag(sng, t.tag, t.value)
    IN  IF ~s.ok THEN [r |-> s.r, song |-> sng, err |-> s.r.err]
        ELSE IF s.r.line = <<>> \/ s.r.line[1] # "#"
        THEN [r |-> txtUnscan(s.r), song |-> sng, err |-> s.r.err]
        ELSE IF t.tag = HeaderRelative
        THEN IF ~s.r.AllowRelative
             THEN [r |-> s.r, song |-> sng, err |-> "ErrRelativeNotAllowed"]
             ELSE ReadTags([s.r EXCEPT !.Relative = ToUpper(t.value) = <<"Y", "E", "S">>],
                           sng)
        ELSE IF t.tag = HeaderEncoding
        THEN ReadTags([s.r EXCEPT !.Encoding = IF @ = <<>> THEN t.value ELSE @], sng)
        ELSE IF u.err # "nil" THEN [r |-> s.r, song |-> u.s, err |-> u.err]
        ELSE ReadTags(s.r, u.s)

\* parseNoteRelative(s, relative, strict) for a line whose first byte is a
\* valid note type: the note and whether the error is nil
parseNoteRelative(s, relative, strict) ==
    LET f1 == nextField(Tail(s))
        f2 == nextField(f1.rem)
        f3 == nextField(f2.rem)
    IN  IF ~Atoi(f1.field).ok THEN [note |-> ZeroNote, ok |-> FALSE]
        ELSE IF s[1] = NoteTypeEndOfPhrase /\ ~relative
        THEN [note |-> [ZeroNote EXCEPT !.Type = s[1], !.Text = <<"\n">>,
                                        !.Start = Atoi(f1.field).val],
              ok |-> ~(strict /\ TrimSpace(f1.rem) # <<>>)]
        ELSE IF s[1] = NoteTypeEndOfPhrase
        THEN [note |-> [ZeroNote EXCEPT !.Type = s[1], !.Text = <<"\n">>,
                                        !.Start = Atoi(f1.field).val,
                                        !.Duration = Atoi(f2.field).val],
              ok |-> Atoi(f2.field).ok /\ ~(strict /\ TrimSpace(f2.rem) # <<>>)]
        ELSE [note |-> [ZeroNote EXCEPT !.Type = s[1], !.Start = Atoi(f1.field).val,
                                        !.Duration = Atoi(f2.field).val,
                                        !.Pitch = Atoi(f3.field).val,
                                        !.Text = IF f3.rem = <<>> THEN <<>> ELSE Tail(f3.rem)],
              ok |-> /\ Atoi(f2.field).ok /\ Atoi(f3.field).ok
                     /\ f3.rem # <<>> /\ IsSpace(f3.rem[1]) /\ Len(f3.rem) >= 2]

\* one line of the loop of readNotes that is a note or a line break, n being
\* the result of parseNoteRelative. c is the state of readNotes: the Reader,
\* the player, the relative offsets and the notes of both players, and the
\* error that ended it ("" while none)
readNoteLine(c, n) ==
    IF ~n.ok
    THEN [c EXCEPT !.err = IF c.r.line[1] = NoteTypeEndOfPhrase
                           THEN "ErrInvalidLineBreak" ELSE "ErrInvalidNote"]
    ELSE IF c.r.line[1] = NoteTypeEndOfPhrase
    THEN [c EXCEPT !.notes[c.player + 1] =
                       Append(@, [n.note EXCEPT !.Start = @ + c.rel[c.player + 1],
                                                !.Duration = 0]),
                   !.rel[c.player + 1] = @ + n.note.Duration]
    ELSE [c EXCEPT !.notes[c.player + 1] =
                       Append(@, [n.note EXCEPT !.Start = @ + c.rel[c.player + 1]])]

\* the case 'P' of readNotes
readPlayerLine(c, allowDuet, duet) ==
    IF ~allowDuet \/ ~duet THEN [c EXCEPT !.err = "ErrUnexpectedPNumber"]
    ELSE IF ~Atoi(TrimSpace(Tail(c.r.line))).ok
            \/ Atoi(TrimSpace(Tail(c.r.line))).val < 1
            \/ Atoi(TrimSpace(Tail(c.r.line))).val > 2
    THEN [c EXCEPT !.err = "ErrInvalidPNumber"]
    ELSE [c EXCEPT !.player = Atoi(TrimSpace(Tail(c.r.line))).val - 1]

\* the loop LineLoop of readNotes from the state c on
RECURSIVE lineLoop(_, _, _)
lineLoop(c, allowDuet, duet) ==
    LET s == txtScan(c.r)
        d == [c EXCEPT !.r = s.r]
        n == readNoteLine(d, parseNoteRelative(s.r.line, s.r.Relative, s.r.StrictLineBreaks))
        p == readPlayerLine(d, allowDuet, duet)
    IN  IF ~s.ok THEN d
        ELSE IF s.r.line = <<>> THEN [d EXCEPT !.err = "ErrEmptyLine"]
        ELSE IF s.r.line[1] \in {":", "*", "F", "R", "G", NoteTypeEndOfPhrase}
        THEN IF n.err # "" THEN n ELSE lineLoop(n, allowDuet, duet)
        ELSE IF s.r.line[1] = "P"
        THEN IF p.err # "" THEN p ELSE lineLoop(p, allowDuet, duet)
        ELSE IF s.r.line[1] = "B"
        THEN IF ~s.r.IgnoreBPMChanges THEN [d EXCEPT !.err = "ErrMultiBPM"]
             ELSE lineLoop(d, allowDuet, duet)
        ELSE IF s.r.line[1] = "E"
        THEN IF s.r.StrictEndTag /\ TrimSpace(Tail(s.r.line)) # <<>>
             THEN [d EXCEPT !.err = "ErrInvalidEndTag"]
             ELSE d
        ELSE [d EXCEPT !.err = "ErrUnknownEvent"]

\* readNotes after its loop: an error of the loop gives no notes; the test
\* of the end tag reads r.line[0], which is out of range when the loop ended
\* at the end of the input, r.line being empty then; sort.Sort is an
\* insertion sort for the short slices of the model
notesResult(c) ==
    IF c.err # "" THEN [c EXCEPT !.notes = <<<<>>, <<>>>>]
    ELSE IF c.r.err # "nil" THEN [c EXCEPT !.notes = <<<<>>, <<>>>>, !.err = c.r.err]
    ELSE IF c.r.EndTagRequired /\ c.r.line = <<>>
    THEN [c EXCEPT !.r.panic = TRUE, !.notes = <<<<>>, <<>>>>, !.err = "index out of range"]
    ELSE IF c.r.EndTagRequired /\ c.r.line[1] # "E"
    THEN [c EXCEPT !.notes = <<<<>>, <<>>>>, !.err = "ErrMissingEndTag"]
    ELSE [c EXCEPT !.notes = <<SortStableFunc(c.notes[1]), SortStableFunc(c.notes[2])>>,
                   !.err = "nil"]

\* Reader.readNotes(allowDuet) of package txt
txtReadNotes(rd, allowDuet) ==
    LET s == txtScan(rd)
    IN  IF ~s.ok
        THEN [r |-> s.r, player |-> 0, rel |-> <<0, 0>>, notes |-> <<<<>>, <<>>>>,
              err |-> s.r.err]
        ELSE notesResult(lineLoop([r |-> txtUnscan(s.r), player |-> 0, rel |-> <<0, 0>>,
                                   notes |-> <<<<>>, <<>>>>, err |-> ""],
                                  allowDuet, s.r.line # <<>> /\ s.r.line[1] = "P"))

\* Reader.ReadSong of package txt: the Reader after it, the Song and the
\* error. r.Encoding is empty for the files of the model, which have no
\* #ENCODING line, and applyEncoding returns nil for it.
TxtReadSong(rd) ==
    LET t == ReadTags(rd, TxtSong)
        k == skipEmptyLines(t.r)
        n == txtReadNotes(k.r, TRUE)
    IN  IF t.err # "nil"
        THEN [r |-> t.r, song |-> t.song, err |-> ParseError(t.r.lineNo, t.err)]
        ELSE IF k.err # "nil"
        THEN [r |-> k.r, song |-> t.song, err |-> ParseError(k.r.lineNo, k.r.err)]
        ELSE IF n.r.panic
        THEN [r |-> n.r, song |-> t.song, err |-> Panic(n.err)]
        ELSE [r |-> n.r,
              song |-> [t.song EXCEPT !.NotesP1 = n.notes[1], !.NotesP2 = n.notes[2]],
              err |-> IF n.err # "nil" THEN ParseError(n.r.lineNo, n.err) ELSE NilErr]

-----------------------------------------------------------------------------
(* Specification SpecTxt: a client that makes a Reader of package txt for  *)
(* a file, sets EndTagRequired or leaves it, and calls ReadSong.           *)

MaxTxtBody == 3

TxtLines == {LineNote, LineBreak, LineBreakRel, LineP1, LineP2, LineEnd, LineEmpty}

TxtHeaders == {<<LineBPM>>, <<LineBPM, LineRelative>>}

TxtFiles == {h \o b : h \in TxtHeaders, b \in SeqsUpTo(TxtLines, MaxTxtBody)}

InitTxt ==
    /\ file \in TxtFiles
    /\ \E required \in BOOLEAN : r = TxtNewReader(file, required)
    /\ res = {}
    /\ pc = "new"
    /\ hist = <<>>
    /\ before = NothingBefore
    /\ resets = 0
    /\ song = TxtSong
    /\ w = NoWriter
    /\ out = <<>>
    /\ back = NewSong
    /\ header = EmptyHeader

\* song, err := r.ReadSong()
TxtReadSongStep ==
    /\ pc = "new"
    /\ \E n \in {TxtReadSong(r)} :
         /\ r' = n.r
         /\ song' = n.song
         /\ res' = {n.err} \ {NilErr}
         /\ pc' = IF n.err.kind = "panic" THEN "panic" ELSE "read"
    /\ UNCHANGED <<file, hist, before, resets, w, out, back, header>>

NextTxt == TxtReadSongStep

SpecTxt == InitTxt /\ [][NextTxt]_vars

\* the number of header lines of f
TxtHeaderLen(f) == Cardinality({i \in 1..Len(f) : f[i] # <<>> /\ f[i][1] = "#"})

\* line i of f is a body line that the loop of readNotes passes: a blank
\* line, a note, or a line break in the form of the mode of the file
IsPassed(f, i) ==
    \/ IsBlank(f[i])
    \/ f[i] = LineNote
    \/ f[i] = (IF HasLine(f, LineRelative) THEN LineBreakRel ELSE LineBreak)

\* line k of f is a voice change that readNotes gets to, in a body whose
\* first line is no voice change
IsLatePNumber(f, k) ==
    /\ k \in (TxtHeaderLen(f) + 1)..Len(f)
    /\ f[k] \in {LineP1, LineP2}
    /\ \A i \in (TxtHeaderLen(f) + 1)..(k - 1) : IsPassed(f, i)
    /\ \E i \in (TxtHeaderLen(f) + 1)..(k - 1) : ~IsBlank(f[i])

\* C29: when the first body line is no voice change, ReadSong of package txt
\* fails at the first line `P N` with a ParseError that wraps
\* ErrUnexpectedPNumber and carries the 1-based number of that line.
C29_UnexpectedPNumber ==
    pc # "new" =>
        \A k \in 1..Len(file) :
            IsLatePNumber(file, k) =>
                /\ pc = "read"
                /\ res = {ParseError(k, "ErrUnexpectedPNumber")}

\* C29 witness: `P2` on line 5 behind a note and a blank line, in a file in
\* relative mode, gave the error of line 5.
C29_Witness ==
    /\ pc = "read"
    /\ file = <<LineBPM, LineRelative, LineNote, LineEmpty, LineP2>>
    /\ res = {ParseError(5, "ErrUnexpectedPNumber")}
    /\ r.lineNo = 5

\* the body of f has a line that is not blank and no end tag, and every line
\* of it is passed by readNotes
EndsWithoutEndTag(f) ==
    /\ \A i \in (TxtHeaderLen(f) + 1)..Len(f) : IsPassed(f, i)
    /\ \E i \in (TxtHeaderLen(f) + 1)..Len(f) : ~IsBlank(f[i])

\* the body of f is passed by readNotes up to its last line, the end tag
EndsWithEndTag(f) ==
    /\ Len(f) > TxtHeaderLen(f)
    /\ f[Len(f)] = LineEnd
    /\ \A i \in (TxtHeaderLen(f) + 1)..(Len(f) - 1) : IsPassed(f, i)

\* C30: with EndTagRequired set, ReadSong of package txt returns a
\* ParseError that wraps ErrMissingEndTag when the input ends without an end
\* tag, and no such error when the body ends with the line `E`.
C30_MissingEndTag ==
    (pc # "new" /\ r.EndTagRequired) =>
        /\ EndsWithoutEndTag(file)
             => /\ pc = "read"
                /\ \E e \in res : e.kind = "ParseError" /\ e.msg = "ErrMissingEndTag"
        /\ EndsWithEndTag(file) => res = {}

====
